---- MODULE Spec2Model ----
(***************************************************************************)
(* fuzz-complete: the lazy generators of src/generator/util.ts, the        *)
(* validator of parser/ast.ts and the sentence generator of                *)
(* generator/lowlevel.ts, as one interpreter over a heap of generator      *)
(* objects.  A generator object is a record with a program counter; the    *)
(* chain of next() calls in progress is the stack; a yield or a return     *)
(* pops the stack and leaves its result in ret.                            *)
(***************************************************************************)
EXTENDS Integers, Sequences, FiniteSets, TLC

VARIABLES
  input,     \* what the run was constructed from (stream lengths, or a grammar)
  heap,      \* the generator and BufferedIterable objects, by identity
  stack,     \* identities of the generators whose next() is executing
  ret,       \* the IteratorResult of the next() that returned last
  out,       \* the values the consumer has received, in order
  finished,  \* the consumer has seen done
  validation, \* how the Language constructor ended: pending, passed or the error
  thrown,    \* the message of the Error that escaped to the consumer, "" if none
  result     \* what the entry point or function under test returned

vars == <<input, heap, stack, ret, out, finished, validation, thrown, result>>

(***************************************************************************)
(* Bounds                                                                  *)
(***************************************************************************)
MaxLen == 3

\* an unending source (naturals()) has no length
Unending == 0 - 1

\* the consumer is take(iterator, PullCap): enough pulls to exhaust the
\* product of two streams of MaxLen elements and see done
PullCap == (MaxLen + 1) * (MaxLen + 1) + 1

\* an unending source is not pulled past this many values
SrcCap == PullCap + 2

\* everyCombination does not start a round past this one
MaxCap == SrcCap

(***************************************************************************)
(* Outcomes of constructing a Language: a thrown ValidationError           *)
(* (parser/error.ts:4-20) is the result [ok |-> FALSE, ...]                *)
(***************************************************************************)
Valid == [ok |-> TRUE, message |-> "", start |-> 0, end |-> 0]

ValidationError(message, start, end) ==
  [ok |-> FALSE, message |-> message, start |-> start, end |-> end]

\* the constructor has not run yet
Pending == [ok |-> FALSE, message |-> "pending", start |-> 0, end |-> 0]

\* reading a property of undefined
TypeError == [ok |-> FALSE, message |-> "TypeError", start |-> 0, end |-> 0]

(***************************************************************************)
(* Helpers on sequences                                                    *)
(***************************************************************************)
Front(s) == SubSeq(s, 1, Len(s) - 1)

Range(s) == {s[k] : k \in 1..Len(s)}

Max2(a, b) == IF a >= b THEN a ELSE b

\* the one element of a singleton: { F(x) : x \in {e} } evaluates e once,
\* however often F uses x
The(S) == CHOOSE x \in S : TRUE

(***************************************************************************)
(* Interpreter plumbing                                                    *)
(***************************************************************************)
Top == stack[Len(stack)]

NoRet == [set |-> FALSE, done |-> FALSE, value |-> <<>>]

IterValue(v) == [set |-> TRUE, done |-> FALSE, value |-> v]

IterDone == [set |-> TRUE, done |-> TRUE, value |-> <<>>]

\* a JavaScript value travels with its runtime type: a number, a pair
\* [left, right], a skeleton (an array of fragments) or a string
Typed(type, v) == <<type, v>>

Untyped(value) == value[2]

\* nothing was returned yet
NoResult == Typed("pending", <<>>)

\* [left, right] of two values
Pair(left, right) == Typed("pair", <<Untyped(left), Untyped(right)>>)

\* the running generator moves to f and keeps running
Goto(f) ==
  /\ heap' = [heap EXCEPT ![Top] = f]
  /\ stack' = stack
  /\ ret' = NoRet

\* the running generator moves to f and calls next() on generator c
CallNext(f, c) ==
  /\ heap' = [heap EXCEPT ![Top] = f]
  /\ stack' = Append(stack, c)
  /\ ret' = NoRet

\* the running generator suspends at a yield of v
Yield(f, v) ==
  /\ heap' = [heap EXCEPT ![Top] = f]
  /\ stack' = Front(stack)
  /\ ret' = IterValue(v)

\* the running generator returns: done now and on every later next()
Return(f) ==
  /\ heap' = [heap EXCEPT ![Top] = [f EXCEPT !.pc = "done"]]
  /\ stack' = Front(stack)
  /\ ret' = IterDone

(***************************************************************************)
(* Test sources: naturals() and abc() of generator/util_test.ts.  A source *)
(* of length len yields 1, 2, .., len; an unending one yields 1, 2, ...    *)
(***************************************************************************)
NewSource(len) == [kind |-> "source", pc |-> "run", len |-> len, n |-> 0]

StepSource ==
  /\ stack # <<>>
  /\ heap[Top].kind = "source"
  /\ LET f == heap[Top] IN
       IF f.len # Unending /\ f.n >= f.len
         THEN Return(f)
         ELSE /\ f.len = Unending => f.n < SrcCap
              /\ Yield([f EXCEPT !.n = f.n + 1], Typed("number", f.n + 1))
  /\ UNCHANGED <<input, result, out, finished, validation, thrown>>

(***************************************************************************)
(* BufferedIterable (generator/util.ts:65-94)                              *)
(***************************************************************************)
NewBufferedIterable(iterator) ==
  [kind |-> "buffered", buffer |-> <<>>, iterator |-> iterator]

(***************************************************************************)
(* everyCombination (generator/util.ts:1-43)                               *)
(***************************************************************************)
NewEveryCombination(rawLefts, rawRights) ==
  [kind |-> "everyCombination", pc |-> "start",
   rawLefts |-> rawLefts, rawRights |-> rawRights,
   lefts |-> 0, rights |-> 0,
   leftsDone |-> FALSE, rightsDone |-> FALSE, max |-> 0,
   i |-> 0, left |-> <<>>, right |-> <<>>,
   getOf |-> 0, index |-> 0, site |-> "none"]

\* the statement reached once lefts.get / rights.get has answered at a site
\* with result r; yields are reported in .yield
AfterGet(f, r) ==
  CASE f.site = "leftsMax" ->
         IF r.done
           THEN [f |-> [f EXCEPT !.leftsDone = TRUE, !.pc = "rightsTop"],
                 yield |-> FALSE, value |-> <<>>]
           ELSE [f |-> [f EXCEPT !.left = r.value, !.i = 0, !.pc = "leftsLoop"],
                 yield |-> FALSE, value |-> <<>>]
    [] f.site = "rightsI" ->
         IF r.done
           THEN [f |-> [f EXCEPT !.pc = "rightsTop"],
                 yield |-> FALSE, value |-> <<>>]
           ELSE [f |-> [f EXCEPT !.pc = "leftsLoopResume"],
                 yield |-> TRUE, value |-> Pair(f.left, r.value)]
    [] f.site = "rightsMax" ->
         IF r.done
           THEN [f |-> [f EXCEPT !.rightsDone = TRUE, !.pc = "check"],
                 yield |-> FALSE, value |-> <<>>]
           ELSE [f |-> [f EXCEPT !.right = r.value, !.i = 0, !.pc = "rightsLoop"],
                 yield |-> FALSE, value |-> <<>>]
    [] f.site = "leftsI" ->
         IF r.done
           THEN [f |-> [f EXCEPT !.pc = "check"],
                 yield |-> FALSE, value |-> <<>>]
           ELSE [f |-> [f EXCEPT !.pc = "rightsLoopResume"],
                 yield |-> TRUE, value |-> Pair(r.value, f.right)]

\* line 15: for (let i = 0; i < max; i++)
LeftsLoopCond_Inclusive(f) == f.i <= f.max

LeftsLoopCond_Unbounded(f) == TRUE

LeftsLoopCond(f) == f.i < f.max

\* line 29: for (let i = 0; i <= max; i++)
RightsLoopCond_Exclusive(f) == f.i < f.max

RightsLoopCond(f) == f.i <= f.max

\* line 38: if (leftsDone && rightsDone) break
BothDone_LeftsOnly(f) == f.leftsDone

BothDone_Either(f) == f.leftsDone \/ f.rightsDone

BothDone(f) == f.leftsDone /\ f.rightsDone

\* BufferedIterable.get(index), called by the running everyCombination
BeginGet(f, buffered, index, site) ==
  Goto([f EXCEPT !.pc = "get", !.getOf = buffered, !.index = index,
                 !.site = site])

Finish(a) == IF a.yield THEN Yield(a.f, a.value) ELSE Goto(a.f)

StepEveryCombination ==
  /\ stack # <<>>
  /\ heap[Top].kind = "everyCombination"
  /\ LET f == heap[Top] IN
       CASE f.pc = "start" ->
              \* lines 4-8
              /\ heap' = [heap EXCEPT ![Top] =
                            [f EXCEPT !.lefts = Len(heap) + 1,
                                      !.rights = Len(heap) + 2,
                                      !.pc = "leftsTop"]]
                          \o <<NewBufferedIterable(f.rawLefts),
                               NewBufferedIterable(f.rawRights)>>
              /\ stack' = stack
              /\ ret' = NoRet
         [] f.pc = "leftsTop" ->
              \* line 10
              IF ~f.leftsDone
                THEN BeginGet(f, f.lefts, f.max, "leftsMax")
                ELSE Goto([f EXCEPT !.pc = "rightsTop"])
         [] f.pc = "leftsLoop" ->
              \* line 15
              IF LeftsLoopCond(f)
                THEN BeginGet(f, f.rights, f.i, "rightsI")
                ELSE Goto([f EXCEPT !.pc = "rightsTop"])
         [] f.pc = "leftsLoopResume" ->
              Goto([f EXCEPT !.i = f.i + 1, !.pc = "leftsLoop"])
         [] f.pc = "rightsTop" ->
              \* line 24
              IF ~f.rightsDone
                THEN BeginGet(f, f.rights, f.max, "rightsMax")
                ELSE Goto([f EXCEPT !.pc = "check"])
         [] f.pc = "rightsLoop" ->
              \* line 29
              IF RightsLoopCond(f)
                THEN BeginGet(f, f.lefts, f.i, "leftsI")
                ELSE Goto([f EXCEPT !.pc = "check"])
         [] f.pc = "rightsLoopResume" ->
              Goto([f EXCEPT !.i = f.i + 1, !.pc = "rightsLoop"])
         [] f.pc = "check" ->
              \* lines 38-41
              IF BothDone(f)
                THEN Return(f)
                ELSE /\ f.max < MaxCap
                     /\ Goto([f EXCEPT !.max = f.max + 1, !.pc = "leftsTop"])
         [] f.pc = "get" ->
              \* BufferedIterable.get, lines 85-92
              IF f.index >= Len(heap[f.getOf].buffer)
                THEN CallNext([f EXCEPT !.pc = "getWait"], heap[f.getOf].iterator)
                ELSE Finish(AfterGet(f, [done |-> FALSE,
                                         value |-> heap[f.getOf].buffer[f.index + 1]]))
         [] f.pc = "getWait" ->
              IF ret.done
                THEN Finish(AfterGet(f, [done |-> TRUE, value |-> <<>>]))
                ELSE /\ heap' = [heap EXCEPT
                                   ![Top] = [f EXCEPT !.pc = "get"],
                                   ![f.getOf] = [@ EXCEPT !.buffer =
                                                   Append(@, ret.value)]]
                     /\ stack' = stack
                     /\ ret' = NoRet
         [] f.pc = "done" -> Return(f)
  /\ UNCHANGED <<input, result, out, finished, validation, thrown>>

(***************************************************************************)
(* The consumer: take(iterator, PullCap) of util.ts, collecting into out.  *)
(* The iterator it pulls is the first object of the heap.                  *)
(***************************************************************************)
Root == 1

Pull ==
  /\ heap # <<>>
  /\ stack = <<>>
  /\ thrown = ""
  /\ ~ret.set
  /\ ~finished
  /\ Len(out) < PullCap
  /\ stack' = <<Root>>
  /\ UNCHANGED <<input, result, heap, ret, out, finished, validation, thrown>>

Deliver ==
  /\ stack = <<>>
  /\ ret.set
  /\ IF ret.done
       THEN finished' = TRUE /\ out' = out
       ELSE finished' = FALSE /\ out' = Append(out, Untyped(ret.value))
  /\ ret' = NoRet
  /\ UNCHANGED <<input, result, heap, stack, validation, thrown>>

(***************************************************************************)
(* Specification EC: everyCombination over two test sources                *)
(***************************************************************************)
Lengths == (0..MaxLen) \cup {Unending}

InitEC ==
  /\ input \in [lenA : Lengths, lenB : Lengths]
  /\ heap = <<NewEveryCombination(2, 3),
              NewSource(input.lenA), NewSource(input.lenB)>>
  /\ stack = <<>>
  /\ ret = NoRet
  /\ out = <<>>
  /\ finished = FALSE
  /\ validation = Valid
  /\ thrown = ""
  /\ result = NoResult

NextEC == Pull \/ Deliver \/ StepEveryCombination \/ StepSource

SpecEC == InitEC /\ [][NextEC]_vars

\* the consumer's loop keeps running: some step is taken whenever one is possible
FairEC == SpecEC /\ WF_vars(NextEC)

(***************************************************************************)
(* Claims about everyCombination.  A[i] and B[j] are the i-th and j-th     *)
(* values of the two sources, counted from 0; a source yields i + 1 as its *)
(* i-th value, so the pair (A[i], B[j]) is <<i + 1, j + 1>>.               *)
(***************************************************************************)
Exists(len, idx) == idx >= 0 /\ (len = Unending \/ idx < len)

IsFinite(len) == len # Unending

PairOf(i, j) == <<i + 1, j + 1>>

\* the indices a run of the model can tell apart
Indices == 0..MaxLen

\* C2: every yielded value is a pair (A[i], B[j]) of existing elements, no
\* pair is yielded twice, and every existing pair has been yielded once the
\* generator reports done (or, for indices up to MaxLen, once the consumer
\* has taken PullCap values)
C2_Completeness ==
  /\ \A k \in 1..Len(out) :
       /\ Exists(input.lenA, out[k][1] - 1)
       /\ Exists(input.lenB, out[k][2] - 1)
  /\ \A k, l \in 1..Len(out) : k # l => out[k] # out[l]
  /\ (finished \/ Len(out) = PullCap) =>
       \A i, j \in Indices :
         (Exists(input.lenA, i) /\ Exists(input.lenB, j))
           => PairOf(i, j) \in Range(out)

C2_Witness ==
  /\ finished
  /\ input.lenA = 2 /\ input.lenB = MaxLen
  /\ Len(out) = 2 * MaxLen

\* the pairs of frontier m, in the order the claim gives
RECURSIVE LeftsOfFrontier(_, _, _)
LeftsOfFrontier(lens, m, j) ==
  IF j >= m \/ ~Exists(lens.lenA, m) THEN <<>>
  ELSE (IF Exists(lens.lenB, j) THEN <<PairOf(m, j)>> ELSE <<>>)
         \o LeftsOfFrontier(lens, m, j + 1)

RECURSIVE RightsOfFrontier(_, _, _)
RightsOfFrontier(lens, m, i) ==
  IF i > m \/ ~Exists(lens.lenB, m) THEN <<>>
  ELSE (IF Exists(lens.lenA, i) THEN <<PairOf(i, m)>> ELSE <<>>)
         \o RightsOfFrontier(lens, m, i + 1)

RECURSIVE ExpectedOrder(_, _, _)
ExpectedOrder(lens, m, last) ==
  IF m > last THEN <<>>
  ELSE LeftsOfFrontier(lens, m, 0) \o RightsOfFrontier(lens, m, 0)
         \o ExpectedOrder(lens, m + 1, last)

FirstTenOfNaturals ==
  << <<1, 1>>, <<2, 1>>, <<1, 2>>, <<2, 2>>, <<3, 1>>,
     <<3, 2>>, <<1, 3>>, <<2, 3>>, <<3, 3>>, <<4, 1>> >>

\* C3: the output is at every moment a prefix of the frontier-by-frontier
\* order, it is all of it once done, and for two unending sources it begins
\* with the ten pairs the spec lists
C3_ExactOrder ==
  LET expected == ExpectedOrder(input, 0, PullCap) IN
    /\ Len(out) <= Len(expected)
    /\ out = SubSeq(expected, 1, Len(out))
    /\ finished => out = expected
    /\ (input.lenA = Unending /\ input.lenB = Unending /\ Len(out) >= 10)
         => SubSeq(out, 1, 10) = FirstTenOfNaturals

C3_Witness ==
  /\ input.lenA = Unending /\ input.lenB = Unending
  /\ Len(out) = 10

\* C4: the pair (A[i], B[j]) sits at an output index (from 0) below
\* (max(i,j)+1)^2, and when it is handed to the consumer neither source has
\* been asked for more than max(i,j)+1 values
C4_Fairness ==
  /\ \A k \in 1..Len(out) :
       LET m == Max2(out[k][1], out[k][2]) IN k - 1 < m * m
  /\ (stack = <<>> /\ ret.set /\ ~ret.done) =>
       LET m == Max2(Untyped(ret.value)[1], Untyped(ret.value)[2]) IN
         /\ heap[2].n <= m
         /\ heap[3].n <= m

C4_Witness ==
  /\ input.lenA = Unending /\ input.lenB = 1
  /\ Len(out) > MaxLen
  /\ out[Len(out)] = <<Len(out), 1>>

\* C5: with p and q elements the generator yields exactly p*q pairs, all of
\* them, and then reports done
C5_FiniteInputs ==
  (IsFinite(input.lenA) /\ IsFinite(input.lenB))
    => <>(/\ finished
          /\ Len(out) = input.lenA * input.lenB
          /\ \A i, j \in Indices :
               (Exists(input.lenA, i) /\ Exists(input.lenB, j))
                 => PairOf(i, j) \in Range(out))

C5_Witness ==
  /\ finished
  /\ input.lenA = 1 /\ input.lenB = MaxLen
  /\ Len(out) = MaxLen

(***************************************************************************)
(* The grammar AST (parser/ast.ts:5-17, 137-141)                           *)
(***************************************************************************)
Literal(value) == [kind |-> "literal", value |-> value]

Ref(name) == [kind |-> "rule", name |-> name, offsetStart |-> 0, offsetEnd |-> 0]

Sequence(productions) == [kind |-> "sequence", productions |-> productions]

Choice(choices) == [kind |-> "choice", choices |-> choices]

Op(operator, production) ==
  [kind |-> "unaryOperator", operator |-> operator, production |-> production]

Epsilon == Sequence(<<>>)

Rule(name, production, labeled) ==
  [name |-> name, production |-> production, labeled |-> labeled,
   nameStart |-> 0, nameEnd |-> 0]

(***************************************************************************)
(* Offsets as the parser assigns them (parser.ts:245-247, 295-300): every  *)
(* rule name and every rule reference gets the position of its token, so   *)
(* positions grow from left to right and no two tokens share one.  A node  *)
(* at position base owns the positions base .. base + span - 1; its j-th   *)
(* child owns the j-th eighth of them.                                     *)
(***************************************************************************)
Fanout == 8

RuleSpan == Fanout * Fanout * Fanout * Fanout * Fanout * Fanout

RECURSIVE Locate(_, _, _)
Locate(production, base, span) ==
  CASE production.kind = "literal" -> production
    [] production.kind = "rule" ->
         [production EXCEPT !.offsetStart = base, !.offsetEnd = base + 1]
    [] production.kind = "unaryOperator" ->
         [production EXCEPT !.production = Locate(@, base, span)]
    [] production.kind = "sequence" ->
         [production EXCEPT !.productions =
            [j \in 1..Len(@) |->
               Locate(@[j], base + (j - 1) * (span \div Fanout), span \div Fanout)]]
    [] production.kind = "choice" ->
         [production EXCEPT !.choices =
            [j \in 1..Len(@) |->
               Locate(@[j], base + (j - 1) * (span \div Fanout), span \div Fanout)]]

LocateRules(rules) ==
  [k \in 1..Len(rules) |->
     [rules[k] EXCEPT !.nameStart = k * RuleSpan * 2,
                      !.nameEnd = k * RuleSpan * 2 + 1,
                      !.production = Locate(@, k * RuleSpan * 2 + 2, RuleSpan)]]

\* new Language(name, rules), before validation (ast.ts:22-28)
Language(name, rules) == [name |-> name, rules |-> LocateRules(rules)]

(***************************************************************************)
(* Language.validate (parser/ast.ts:31-125).  A thrown ValidationError is  *)
(* the result [ok |-> FALSE, ...]; the first one thrown wins.              *)
(***************************************************************************)
\* the first failure of a list of results, in order
RECURSIVE FirstError(_)
FirstError(results) ==
  IF results = <<>> THEN Valid
  ELSE IF ~results[1].ok THEN results[1]
  ELSE FirstError(Tail(results))

\* rulesByName.get(name): a later rule of the same name replaces an earlier
\* one (ast.ts:23-27)
Undefined == 0

RulesByName(language, name) ==
  IF \E k \in 1..Len(language.rules) : language.rules[k].name = name
    THEN CHOOSE k \in 1..Len(language.rules) :
           /\ language.rules[k].name = name
           /\ \A j \in (k + 1)..Len(language.rules) : language.rules[j].name # name
    ELSE Undefined

\* lines 32-39: the first rule whose name an earlier rule already has
DuplicateOffsets_Earlier(language, k) ==
  LET first == CHOOSE j \in 1..(k - 1) :
                 language.rules[j].name = language.rules[k].name
  IN ValidationError("Duplicate rule", language.rules[first].nameStart,
                     language.rules[first].nameEnd)

DuplicateOffsets(language, k) ==
  ValidationError("Duplicate rule", language.rules[k].nameStart,
                  language.rules[k].nameEnd)

ValidateDuplicates(language) ==
  FirstError([k \in 1..Len(language.rules) |->
    IF \E j \in 1..(k - 1) : language.rules[j].name = language.rules[k].name
      THEN DuplicateOffsets(language, k)
      ELSE Valid])

\* lines 48-77
RECURSIVE validateRuleReferences(_, _)

ReferencesOfChoice_FirstOnly(choices, ruleNames) ==
  IF choices = <<>> THEN Valid
  ELSE validateRuleReferences(choices[1], ruleNames)

ReferencesOfChoice(choices, ruleNames) ==
  FirstError([j \in 1..Len(choices) |->
                validateRuleReferences(choices[j], ruleNames)])

validateRuleReferences(production, ruleNames) ==
  CASE production.kind = "literal" -> Valid
    [] production.kind = "sequence" ->
         FirstError([j \in 1..Len(production.productions) |->
                       validateRuleReferences(production.productions[j], ruleNames)])
    [] production.kind = "rule" ->
         IF production.name \notin ruleNames
           THEN ValidationError("Rule not declared", production.offsetStart,
                                production.offsetEnd)
           ELSE Valid
    [] production.kind = "unaryOperator" ->
         validateRuleReferences(production.production, ruleNames)
    [] production.kind = "choice" ->
         ReferencesOfChoice(production.choices, ruleNames)

\* lines 79-125; visited holds the rules on the current path (a rule is
\* removed again when its traversal returns, line 87)
RECURSIVE validateRuleTerminates(_, _, _)
RECURSIVE validateProductionTerminates(_, _, _)

\* visited.delete(rule), line 87
Leave_Keep(visited, rule) == visited

Leave(visited, rule) == visited \ {rule}

\* visited is one set, shared by the whole traversal: what it holds once the
\* traversal of a rule, of a production, of some productions in turn has
\* returned (or has thrown, after which nothing reads it)
RECURSIVE VisitedAfterRule(_, _, _)
RECURSIVE VisitedAfterProduction(_, _, _)
RECURSIVE VisitedAfterEach(_, _, _)

VisitedAfterRule(language, rule, visited) ==
  IF rule = Undefined \/ rule \in visited THEN visited
  ELSE Leave(VisitedAfterProduction(language, language.rules[rule].production,
                                    visited \cup {rule}),
             rule)

VisitedAfterProduction(language, production, visited) ==
  CASE production.kind = "literal" -> visited
    [] production.kind = "unaryOperator" ->
         IF production.operator \in {"*", "?"} THEN visited
         ELSE VisitedAfterProduction(language, production.production, visited)
    [] production.kind = "rule" ->
         VisitedAfterRule(language, RulesByName(language, production.name),
                          visited)
    [] production.kind = "choice" ->
         IF Len(production.choices) = 0 THEN visited
         ELSE VisitedAfterProduction(language, production.choices[1], visited)
    [] production.kind = "sequence" ->
         VisitedAfterEach(language, production.productions, visited)

VisitedAfterEach(language, productions, visited) ==
  IF productions = <<>> THEN visited
  ELSE VisitedAfterEach(language, Tail(productions),
                        VisitedAfterProduction(language, Head(productions),
                                               visited))

\* lines 116-120: each element is traversed with the set as the elements
\* before it have left it
TerminatesSequence_FirstOnly(language, productions, visited) ==
  IF productions = <<>> THEN Valid
  ELSE validateProductionTerminates(language, productions[1], visited)

TerminatesSequence(language, productions, visited) ==
  FirstError([j \in 1..Len(productions) |->
                validateProductionTerminates(
                  language, productions[j],
                  VisitedAfterEach(language, SubSeq(productions, 1, j - 1),
                                   visited))])

\* lines 95-106
TerminatesUnary_Skip(language, production, visited) == Valid

TerminatesUnary(language, production, visited) ==
  IF production.operator \in {"*", "?"}
    THEN Valid
    ELSE validateProductionTerminates(language, production.production, visited)

\* lines 110-115
TerminatesChoice_All(language, choices, visited) ==
  FirstError([j \in 1..Len(choices) |->
                validateProductionTerminates(language, choices[j], visited)])

TerminatesChoice(language, choices, visited) ==
  IF Len(choices) = 0 THEN Valid
  ELSE validateProductionTerminates(language, choices[1], visited)

validateProductionTerminates(language, production, visited) ==
  CASE production.kind = "literal" -> Valid
    [] production.kind = "unaryOperator" ->
         TerminatesUnary(language, production, visited)
    [] production.kind = "rule" ->
         validateRuleTerminates(language,
                                RulesByName(language, production.name), visited)
    [] production.kind = "choice" ->
         TerminatesChoice(language, production.choices, visited)
    [] production.kind = "sequence" ->
         TerminatesSequence(language, production.productions, visited)

validateRuleTerminates(language, rule, visited) ==
  IF rule = Undefined THEN TypeError
  ELSE IF rule \in visited
    THEN ValidationError("Infinite loop detected in leftmost choice",
                         language.rules[rule].nameStart,
                         language.rules[rule].nameEnd)
    ELSE validateProductionTerminates(language, language.rules[rule].production,
                                      visited \cup {rule})

validate_TerminationFirst(language) ==
  LET ruleNames == {language.rules[k].name : k \in 1..Len(language.rules)}
      duplicates == ValidateDuplicates(language)
      terminates ==
        FirstError([k \in 1..Len(language.rules) |->
                      validateRuleTerminates(language, k, {})])
  IN IF ~duplicates.ok THEN duplicates
     ELSE IF ~terminates.ok THEN terminates
     ELSE FirstError([k \in 1..Len(language.rules) |->
                        validateRuleReferences(language.rules[k].production,
                                               ruleNames)])

validate(language) ==
  LET ruleNames == {language.rules[k].name : k \in 1..Len(language.rules)}
      duplicates == ValidateDuplicates(language)
      references ==
        FirstError([k \in 1..Len(language.rules) |->
                      validateRuleReferences(language.rules[k].production,
                                             ruleNames)])
  IN IF ~duplicates.ok THEN duplicates
     ELSE IF ~references.ok THEN references
     ELSE FirstError([k \in 1..Len(language.rules) |->
                        validateRuleTerminates(language, k, {})])

\* the constructor (ast.ts:22-29): validate() runs once, when the Language is
\* made
Construct ==
  /\ validation = Pending
  /\ validation' = validate(input)
  /\ UNCHANGED <<input, result, heap, stack, ret, out, finished, thrown>>

(***************************************************************************)
(* Grammars of the tests and of the documentation, in the shape the parser *)
(* gives them (parser.ts:253-342): a rule body is a choice; an alternative *)
(* of one element is that element, any other is a sequence.                *)
(***************************************************************************)
\* start = start;
LoopDirect ==
  Language("loop", <<Rule("start", Choice(<<Ref("start")>>), FALSE)>>)

\* start = "a" start;
LoopAfterLiteral ==
  Language("loop",
    <<Rule("start", Choice(<<Sequence(<<Literal("a"), Ref("start")>>)>>), FALSE)>>)

\* foo = "a" bar; bar = "b" baz; baz = "c" foo;
LoopThreeRules ==
  Language("loop",
    <<Rule("foo", Choice(<<Sequence(<<Literal("a"), Ref("bar")>>)>>), FALSE),
      Rule("bar", Choice(<<Sequence(<<Literal("b"), Ref("baz")>>)>>), FALSE),
      Rule("baz", Choice(<<Sequence(<<Literal("c"), Ref("foo")>>)>>), FALSE)>>)

\* start = "a" start | e;
AStarLiteralFirst ==
  Language("Hello World",
    <<Rule("start",
           Choice(<<Sequence(<<Literal("a"), Ref("start")>>), Epsilon>>),
           FALSE)>>)

\* start = e | "a" start;
AStarEmptyFirst ==
  Language("Hello World",
    <<Rule("start",
           Choice(<<Epsilon, Sequence(<<Literal("a"), Ref("start")>>)>>),
           FALSE)>>)

\* start = honk;
UndeclaredOnly ==
  Language("foo", <<Rule("start", Choice(<<Ref("honk")>>), FALSE)>>)

\* start = 'lol' 'what'; foo = honk;
UndeclaredInSecondRule ==
  Language("foo",
    <<Rule("start", Choice(<<Sequence(<<Literal("lol"), Literal("what")>>)>>),
           FALSE),
      Rule("foo", Choice(<<Ref("honk")>>), FALSE)>>)

\* foo = "a" | "b" foo;
BStarA ==
  Language("b*a",
    <<Rule("foo",
           Choice(<<Literal("a"), Sequence(<<Literal("b"), Ref("foo")>>)>>),
           FALSE)>>)

\* a = "x"; b = "y"; b = honk;
DuplicateThird ==
  Language("duplicate",
    <<Rule("a", Choice(<<Literal("x")>>), FALSE),
      Rule("b", Choice(<<Literal("y")>>), FALSE),
      Rule("b", Choice(<<Ref("honk")>>), FALSE)>>)

\* s = a a; a = "x";
ReachedTwice ==
  Language("twice",
    <<Rule("s", Choice(<<Sequence(<<Ref("a"), Ref("a")>>)>>), FALSE),
      Rule("a", Choice(<<Literal("x")>>), FALSE)>>)

\* s = a b; a = c; b = c; c = "x";
ReachedByTwoPaths ==
  Language("diamond",
    <<Rule("s", Choice(<<Sequence(<<Ref("a"), Ref("b")>>)>>), FALSE),
      Rule("a", Choice(<<Ref("c")>>), FALSE),
      Rule("b", Choice(<<Ref("c")>>), FALSE),
      Rule("c", Choice(<<Literal("x")>>), FALSE)>>)

\* s = honk | "x"; t = t;
UndeclaredAndLoop ==
  Language("both",
    <<Rule("s", Choice(<<Ref("honk"), Literal("x")>>), FALSE),
      Rule("t", Choice(<<Ref("t")>>), FALSE)>>)

\* t = t honk;
LoopThenUndeclared ==
  Language("both",
    <<Rule("t", Choice(<<Sequence(<<Ref("t"), Ref("honk")>>)>>), FALSE)>>)

TestLanguages ==
  {LoopDirect, LoopAfterLiteral, LoopThreeRules, AStarLiteralFirst,
   AStarEmptyFirst, UndeclaredOnly, UndeclaredInSecondRule, BStarA,
   DuplicateThird, ReachedTwice, ReachedByTwoPaths, UndeclaredAndLoop,
   LoopThenUndeclared}

(***************************************************************************)
(* Specification Validate: the constructor applied to every grammar of a   *)
(* bounded family.  A body is a leaf wrapped in at most MaxDepth           *)
(* constructs, each with a sibling on either side or a unary operator.     *)
(***************************************************************************)
MaxDepth == 2

Leaves == {Literal("x"), Ref("r1"), Ref("r2"), Ref("honk")}

Siblings == {Literal("x"), Ref("r2"), Ref("honk")}

Wrap(p) ==
  {Sequence(<<s, p>>) : s \in Siblings}
    \cup {Sequence(<<p, s>>) : s \in Siblings}
    \cup {Choice(<<s, p>>) : s \in Siblings}
    \cup {Choice(<<p, s>>) : s \in Siblings}
    \cup {Op(o, p) : o \in {"*", "+", "?"}}

RECURSIVE Bodies(_)
Bodies(depth) ==
  IF depth = 0 THEN Leaves
  ELSE Bodies(depth - 1) \cup UNION {Wrap(p) : p \in Bodies(depth - 1)}

SecondBodies ==
  {Literal("x"), Ref("r1"), Ref("r2"), Ref("honk"),
   Sequence(<<Literal("x"), Ref("r1")>>), Choice(<<Literal("x"), Ref("r1")>>)}

BoundedLanguages ==
  {Language("bounded", <<Rule("r1", b, FALSE)>>) : b \in Bodies(MaxDepth)}
    \cup {Language("bounded", <<Rule("r1", b, FALSE), Rule(n, c, FALSE)>>) :
            b \in Bodies(MaxDepth), n \in {"r1", "r2"}, c \in SecondBodies}

InitValidate ==
  /\ input \in TestLanguages \cup BoundedLanguages
  /\ heap = <<>>
  /\ stack = <<>>
  /\ ret = NoRet
  /\ out = <<>>
  /\ finished = FALSE
  /\ validation = Pending
  /\ thrown = ""
  /\ result = NoResult

NextValidate == Construct

SpecValidate == InitValidate /\ [][NextValidate]_vars

(***************************************************************************)
(* Claims about validation.  What a grammar contains is computed here from *)
(* the AST alone, not by the validator.                                    *)
(***************************************************************************)
Constructed == validation # Pending

RuleIndices == 1..Len(input.rules)

DeclaredNames == {input.rules[k].name : k \in RuleIndices}

HasDuplicate ==
  \E j, k \in RuleIndices : j < k /\ input.rules[j].name = input.rules[k].name

\* the first declaration that repeats the name of an earlier one
FirstRepeated ==
  CHOOSE k \in RuleIndices :
    /\ \E j \in 1..(k - 1) : input.rules[j].name = input.rules[k].name
    /\ \A i \in 1..(k - 1) :
         \A j \in 1..(i - 1) : input.rules[j].name # input.rules[i].name

\* every rule reference of a production, at any depth
RECURSIVE RefsOf(_)
RefsOf(production) ==
  CASE production.kind = "literal" -> {}
    [] production.kind = "rule" -> {production}
    [] production.kind = "unaryOperator" -> RefsOf(production.production)
    [] production.kind = "sequence" ->
         UNION {RefsOf(production.productions[j]) :
                  j \in 1..Len(production.productions)}
    [] production.kind = "choice" ->
         UNION {RefsOf(production.choices[j]) : j \in 1..Len(production.choices)}

UndeclaredRefs ==
  {r \in UNION {RefsOf(input.rules[k].production) : k \in RuleIndices} :
     r.name \notin DeclaredNames}

\* positions grow in rule order and from left to right, so the first
\* undeclared reference is the one at the least position
FirstUndeclared ==
  CHOOSE r \in UndeclaredRefs :
    \A q \in UndeclaredRefs : r.offsetStart <= q.offsetStart

\* the names a production reaches before anything else: the first
\* alternative of a choice, the elements of a sequence, the operand of +
RECURSIVE LeadsTo(_)
LeadsTo(production) ==
  CASE production.kind = "literal" -> {}
    [] production.kind = "rule" -> {production.name}
    [] production.kind = "unaryOperator" ->
         IF production.operator = "+" THEN LeadsTo(production.production)
         ELSE {}
    [] production.kind = "sequence" ->
         UNION {LeadsTo(production.productions[j]) :
                  j \in 1..Len(production.productions)}
    [] production.kind = "choice" ->
         IF production.choices = <<>> THEN {}
         ELSE LeadsTo(production.choices[1])

RECURSIVE ReachedNames(_, _)
ReachedNames(names, rounds) ==
  IF rounds = 0 THEN names
  ELSE ReachedNames(
         names \cup UNION {LeadsTo(input.rules[k].production) :
                             k \in {i \in RuleIndices : input.rules[i].name \in names}},
         rounds - 1)

\* some rule's first alternative leads back to that rule
HasLeftmostLoop ==
  \E k \in RuleIndices :
    input.rules[k].name
      \in ReachedNames(LeadsTo(input.rules[k].production), Len(input.rules))

LoopMessage == "Infinite loop detected in leftmost choice"

Rejected(message) == ~validation.ok /\ validation.message = message

\* C7 as stated: every grammar with a leftmost loop is rejected with the loop
\* message (fails when a duplicate name or an undeclared reference is
\* reported first)
C7_Original ==
  (Constructed /\ HasLeftmostLoop) => Rejected(LoopMessage)

\* C7: a grammar without duplicate names and undeclared references in which
\* some rule's first alternative leads back to that rule is rejected with the
\* loop message; so are the three grammars of the tests
C7_LoopDetection ==
  /\ (Constructed /\ ~HasDuplicate /\ UndeclaredRefs = {} /\ HasLeftmostLoop)
       => Rejected(LoopMessage)
  /\ (Constructed /\ input \in {LoopDirect, LoopAfterLiteral, LoopThreeRules})
       => Rejected(LoopMessage)

C7_Witness ==
  /\ input = LoopThreeRules
  /\ Rejected(LoopMessage)

\* a rule whose first alternative is a sequence that, after its first
\* element, refers to the rule itself
SelfAfterFirstElement(rule) ==
  /\ rule.production.kind = "choice"
  /\ rule.production.choices # <<>>
  /\ LET first == rule.production.choices[1] IN
       /\ first.kind = "sequence"
       /\ \E j \in 2..Len(first.productions) :
            /\ first.productions[j].kind = "rule"
            /\ first.productions[j].name = rule.name

C9_Original ==
  (Constructed /\ UndeclaredRefs # {}) =>
    /\ Rejected("Rule not declared")
    /\ \E r \in UndeclaredRefs :
         validation.start = r.offsetStart /\ validation.end = r.offsetEnd

\* C9: when no rule name is declared twice, a grammar with an undeclared
\* reference at any depth is rejected with 'Rule not declared' at the offsets
\* of the first such reference
C9_UndeclaredReference ==
  (Constructed /\ ~HasDuplicate /\ UndeclaredRefs # {}) =>
    validation = ValidationError("Rule not declared",
                                 FirstUndeclared.offsetStart,
                                 FirstUndeclared.offsetEnd)

C9_Witness ==
  /\ Rejected("Rule not declared")
  /\ Cardinality(UndeclaredRefs) = 2
  /\ \E r \in UndeclaredRefs : r.offsetStart > validation.start

\* C10: a grammar with a repeated rule name is rejected with 'Duplicate rule'
\* at the name offsets of the later declaration
C10_DuplicateRule ==
  (Constructed /\ HasDuplicate) =>
    /\ validation = ValidationError("Duplicate rule",
                                    input.rules[FirstRepeated].nameStart,
                                    input.rules[FirstRepeated].nameEnd)
    /\ \E j \in 1..(FirstRepeated - 1) :
         /\ input.rules[j].name = input.rules[FirstRepeated].name
         /\ input.rules[j].nameStart < validation.start

C10_Witness ==
  /\ input = DuplicateThird
  /\ Rejected("Duplicate rule")
  /\ validation.start = input.rules[3].nameStart

\* some production refers to the same rule in two places
RECURSIVE RefList(_)
RefList(production) ==
  CASE production.kind = "literal" -> <<>>
    [] production.kind = "rule" -> <<production.name>>
    [] production.kind = "unaryOperator" -> RefList(production.production)
    [] production.kind = "sequence" ->
         IF production.productions = <<>> THEN <<>>
         ELSE RefList(Head(production.productions))
                \o RefList(Sequence(Tail(production.productions)))
    [] production.kind = "choice" ->
         IF production.choices = <<>> THEN <<>>
         ELSE RefList(Head(production.choices))
                \o RefList(Choice(Tail(production.choices)))

RefersTwice ==
  \E k \in RuleIndices :
    LET refs == RefList(input.rules[k].production) IN
      \E i, j \in 1..Len(refs) : i < j /\ refs[i] = refs[j]

\* C28: a grammar without duplicate names and undeclared references in which
\* no rule leads back to itself passes validation, however often one rule is
\* reached in a traversal; s = a a; a = "x" and the grammar whose rule c is
\* reached by two paths pass, and no grammar without a loop gets the loop
\* message
C28_NoFalseLoopReports ==
  /\ (Constructed /\ ~HasLeftmostLoop) => ~Rejected(LoopMessage)
  /\ (Constructed /\ ~HasDuplicate /\ UndeclaredRefs = {} /\ ~HasLeftmostLoop)
       => validation.ok
  /\ (Constructed /\ input \in {ReachedTwice, ReachedByTwoPaths})
       => validation.ok

C28_Witness ==
  /\ input = ReachedTwice
  /\ RefersTwice
  /\ ~HasLeftmostLoop
  /\ validation.ok

\* besides the grammars written out, the bounded family has grammars that
\* reach one rule twice and pass
ReachedTwiceInFamily ==
  /\ input \in BoundedLanguages
  /\ RefersTwice
  /\ validation.ok

\* C29: the checks run as duplicate names, then references over all rules,
\* then termination over all rules, and the first failure is the result: a
\* duplicate name is reported whatever else is wrong; without one, an
\* undeclared reference is reported even when some rule loops, in an earlier
\* rule or before the reference; the loop message is given only when every
\* name is declared once and every reference is declared, so the termination
\* traversal never reads a rule that does not exist
C29_ValidationOrder ==
  Constructed =>
    /\ HasDuplicate => Rejected("Duplicate rule")
    /\ (~HasDuplicate /\ UndeclaredRefs # {}) => Rejected("Rule not declared")
    /\ Rejected(LoopMessage) => (~HasDuplicate /\ UndeclaredRefs = {})
    /\ validation # TypeError
    /\ input \in {UndeclaredAndLoop, LoopThenUndeclared}
         => Rejected("Rule not declared")

C29_Witness ==
  /\ input = LoopThenUndeclared
  /\ HasLeftmostLoop
  /\ UndeclaredRefs # {}
  /\ Rejected("Rule not declared")

\* a duplicate name hides both an undeclared reference and a loop
AllThreeWrong ==
  /\ HasDuplicate
  /\ UndeclaredRefs # {}
  /\ HasLeftmostLoop
  /\ Rejected("Duplicate rule")

(***************************************************************************)
(* The entry points of the parser (parser.ts:393-403).  Both go through    *)
(* Language.tryToConstruct (parser.ts:221), which runs the three checks of *)
(* validate over every rule and keeps each rule's error instead of         *)
(* stopping at the first: duplicate names, then references, then           *)
(* termination, each in rule order.  A rule whose termination cannot be    *)
(* followed, because it reaches an undeclared rule, adds no loop error.    *)
(***************************************************************************)
Failures(results) == SelectSeq(results, LAMBDA r : ~r.ok)

collectErrors(language) ==
  LET ruleNames == {language.rules[k].name : k \in 1..Len(language.rules)}
      duplicates ==
        [k \in 1..Len(language.rules) |->
           IF \E j \in 1..(k - 1) : language.rules[j].name = language.rules[k].name
             THEN DuplicateOffsets(language, k)
             ELSE Valid]
      references ==
        [k \in 1..Len(language.rules) |->
           validateRuleReferences(language.rules[k].production, ruleNames)]
      termination ==
        [k \in 1..Len(language.rules) |->
           validateRuleTerminates(language, k, {})]
  IN Failures(duplicates) \o Failures(references)
       \o SelectSeq(termination, LAMBDA r : ~r.ok /\ r # TypeError)

\* Result<Language, LocatedError[]> (parser.ts:195-198)
Success(value) == [successful |-> TRUE, value |-> value, error |-> <<>>]

Failure(error) == [successful |-> FALSE, value |-> Undefined, error |-> error]

tryToConstruct(language) ==
  LET errors == collectErrors(language)
  IN IF errors = <<>> THEN Success(language) ELSE Failure(errors)

\* tryParse(text), lines 401-403, from the parsed rules on
tryParse(language) == tryToConstruct(language)

\* which of the collected errors parse throws, line 398
ThrownError_Last(error) == error[Len(error)]

ThrownError(error) == error[1]

\* parse(text), lines 393-399: the language, or the throw of an error
parse(language) ==
  LET context == tryParse(language)
  IN IF context.successful THEN Valid ELSE ThrownError(context.error)

\* a caller uses the try form
TryParse ==
  /\ result = NoResult
  /\ result' = Typed("Result", tryParse(input))
  /\ UNCHANGED <<input, heap, stack, ret, out, finished, validation, thrown>>

\* a caller uses the throw form
Parse ==
  /\ validation = Pending
  /\ validation' = parse(input)
  /\ UNCHANGED <<input, result, heap, stack, ret, out, finished, thrown>>

InitParse == InitValidate

NextParse == TryParse \/ Parse

SpecParse == InitParse /\ [][NextParse]_vars

(***************************************************************************)
(* Claims about the entry points                                           *)
(***************************************************************************)
Tried == result # NoResult

\* what rule k contains, read off the AST
IsDuplicate(k) == \E j \in 1..(k - 1) : input.rules[j].name = input.rules[k].name

HasUndeclared(k) ==
  \E r \in RefsOf(input.rules[k].production) : r.name \notin DeclaredNames

LeadsBackToItself(k) ==
  /\ ~HasDuplicate
  /\ UndeclaredRefs = {}
  /\ input.rules[k].name
       \in ReachedNames(LeadsTo(input.rules[k].production), Len(input.rules))

ProblemRules ==
  {k \in RuleIndices : IsDuplicate(k) \/ HasUndeclared(k) \/ LeadsBackToItself(k)}

\* the positions of rule k's name and body
InRule(k, position) ==
  /\ position >= input.rules[k].nameStart
  /\ \A j \in RuleIndices : j > k => position < input.rules[j].nameStart

ErrorsOf(message) ==
  {i \in 1..Len(Untyped(result).error) : Untyped(result).error[i].message = message}

LowLiteral(text) == [kind |-> "Literal", text |-> text]

LowSequence(sequence) == [kind |-> "Sequence", sequence |-> sequence]

LowChoice(choices) == [kind |-> "Choice", choices |-> choices]

LabeledProduction(label, production) ==
  [kind |-> "LabeledProduction", label |-> label, production |-> production]

\* const Empty = new Sequence([]) is the first object of every graph
Empty == 1

\* Map.get on the ruleMap, a sequence of [name, production] in insertion order
MapHas(map, name) == \E k \in 1..Len(map) : map[k].name = name

MapGet(map, name) ==
  map[CHOOSE k \in 1..Len(map) : map[k].name = name].production

\* language.rules.find((r) => r.name === name)
FindRule(language, name) ==
  language.rules[CHOOSE k \in 1..Len(language.rules) :
                   /\ language.rules[k].name = name
                   /\ \A j \in 1..(k - 1) : language.rules[j].name # name]

New(st, node) ==
  [nodes |-> Append(st.nodes, node), ruleMap |-> st.ruleMap,
   id |-> Len(st.nodes) + 1]

RECURSIVE convertRule(_, _, _)
RECURSIVE convertProduction(_, _, _)
RECURSIVE convertEach(_, _, _, _)

convertRule(language, st, rule) ==
  IF MapHas(st.ruleMap, rule.name)
    THEN [nodes |-> st.nodes, ruleMap |-> st.ruleMap,
          id |-> MapGet(st.ruleMap, rule.name)]
    ELSE LET sequence == Len(st.nodes) + 1
             \* a labeled rule is the LabeledProduction around the sequence
             converted == IF rule.labeled THEN sequence + 1 ELSE sequence
             made == IF rule.labeled
                       THEN <<LowSequence(<<>>),
                              LabeledProduction(rule.name, sequence)>>
                       ELSE <<LowSequence(<<>>)>>
         IN The({[nodes |-> [body.nodes EXCEPT
                               ![sequence] = LowSequence(<<body.id>>)],
                  ruleMap |-> body.ruleMap,
                  id |-> converted] :
                 body \in {convertProduction(
                             language,
                             [nodes |-> st.nodes \o made,
                              ruleMap |-> Append(st.ruleMap,
                                                 [name |-> rule.name,
                                                  production |-> converted])],
                             rule.production)}})

\* productions.map((p) => this.convertProduction(p)), left to right
convertEach(language, st, productions, ids) ==
  IF productions = <<>>
    THEN [nodes |-> st.nodes, ruleMap |-> st.ruleMap, ids |-> ids]
    ELSE The({convertEach(language, head, Tail(productions),
                          Append(ids, head.id)) :
              head \in {convertProduction(language, st, Head(productions))}})

\* new Choice(); new Sequence([innerGenerator, result]); result.initialize(..)
Star(inner) ==
  [nodes |-> inner.nodes
               \o <<LowChoice(<<Empty, Len(inner.nodes) + 2>>),
                    LowSequence(<<inner.id, Len(inner.nodes) + 1>>)>>,
   ruleMap |-> inner.ruleMap, id |-> Len(inner.nodes) + 1]

\* new Sequence(); new Choice([Empty, result]); result.initialize(..)
Plus(inner) ==
  [nodes |-> inner.nodes
               \o <<LowSequence(<<inner.id, Len(inner.nodes) + 2>>),
                    LowChoice(<<Empty, Len(inner.nodes) + 1>>)>>,
   ruleMap |-> inner.ruleMap, id |-> Len(inner.nodes) + 1]

\* the two alternatives the other way round
Optional_EmptyLast(inner) == New(inner, LowChoice(<<inner.id, Empty>>))

Optional(inner) == New(inner, LowChoice(<<Empty, inner.id>>))

convertProduction(language, st, production) ==
  CASE production.kind = "literal" -> New(st, LowLiteral(production.value))
    [] production.kind = "sequence" ->
         The({New(each, LowSequence(each.ids)) :
              each \in {convertEach(language, st, production.productions,
                                    <<>>)}})
    [] production.kind = "rule" ->
         convertRule(language, st, FindRule(language, production.name))
    [] production.kind = "choice" ->
         The({New(each, LowChoice(each.ids)) :
              each \in {convertEach(language, st, production.choices, <<>>)}})
    [] production.kind = "unaryOperator" ->
         The({IF production.operator = "*" THEN Star(inner)
              ELSE IF production.operator = "+" THEN Plus(inner)
              ELSE Optional(inner) :
              inner \in {convertProduction(language, st,
                                           production.production)}})

\* new Generator(language)
NewGenerator(language) ==
  LET st == [nodes |-> <<LowSequence(<<>>)>>, ruleMap |-> <<>>] IN
    The({[kind |-> "Generator", pc |-> "start",
          containsLabels |-> \E k \in 1..Len(language.rules) :
                               language.rules[k].labeled,
          nodes |-> root.nodes, ruleMap |-> root.ruleMap, root |-> root.id,
          inner |-> 0, expand |-> 0] :
         root \in {IF language.rules = <<>>
                     THEN New(st, LowChoice(<<>>))
                     ELSE convertRule(language, st, language.rules[1])}})

(***************************************************************************)
(* Skeletons: arrays of IntermediateIterationResult, a string or {label}   *)
(***************************************************************************)
Fragment(text) == [label |-> FALSE, text |-> text]

Skeleton(results) == Typed("skeleton", results)

Placeholder(label) == [label |-> TRUE, text |-> label]

\* results.join('') of an array of strings
RECURSIVE Join(_)
Join(results) ==
  IF results = <<>> THEN "" ELSE Head(results).text \o Join(Tail(results))

(***************************************************************************)
(* The generators of lowlevel.ts.  The Generator of the running iteration  *)
(* is the second of every call chain: the language iterator, the first,    *)
(* makes it in its first step and drives it.                               *)
(***************************************************************************)
TheGenerator == stack[2]

Nodes == heap[TheGenerator].nodes

\* production.generate(expandLabels): a suspended generator object
Generate(node, expandLabels) ==
  [kind |-> Nodes[node].kind, pc |-> "start", node |-> node,
   expandLabels |-> expandLabels, inner |-> 0, iterators |-> <<>>, pos |-> 0]

concatenateSequence(sequence, expandLabels) ==
  [kind |-> "concatenateSequence", pc |-> "start", sequence |-> sequence,
   expandLabels |-> expandLabels, inner |-> 0]

\* the running generator moves to f and makes new objects
Make(f, objects) ==
  /\ heap' = [heap EXCEPT ![Top] = f] \o objects
  /\ stack' = stack
  /\ ret' = NoRet

\* the running generator, at f, makes new objects and calls next() on one
MakeAndCall(f, objects, c) ==
  /\ heap' = [heap EXCEPT ![Top] = f] \o objects
  /\ stack' = Append(stack, c)
  /\ ret' = NoRet

\* yield* f.inner, after which the generator returns
YieldStar(f) ==
  CASE f.pc = "yieldStar" -> CallNext([f EXCEPT !.pc = "yieldStarWait"], f.inner)
    [] f.pc = "yieldStarWait" ->
         IF ret.done THEN Return(f)
         ELSE Yield([f EXCEPT !.pc = "yieldStar"], ret.value)
    [] f.pc \in {"end", "done"} -> Return(f)

\* yield* of a generator made now
BeginYieldStar(f, object) ==
  MakeAndCall([f EXCEPT !.inner = Len(heap) + 1, !.pc = "yieldStarWait"],
              <<object>>, Len(heap) + 1)

Running(kind) == stack # <<>> /\ heap[Top].kind = kind

\* Literal.generate
StepLiteral ==
  /\ Running("Literal")
  /\ LET f == heap[Top] IN
       IF f.pc = "start"
         THEN Yield([f EXCEPT !.pc = "end"],
                    Skeleton(<<Fragment(Nodes[f.node].text)>>))
         ELSE Return(f)
  /\ UNCHANGED <<input, result, out, finished, validation, thrown>>

\* Sequence.generate
StepSequence ==
  /\ Running("Sequence")
  /\ LET f == heap[Top] IN
       IF f.pc = "start"
         THEN BeginYieldStar(f, concatenateSequence(Nodes[f.node].sequence,
                                                    f.expandLabels))
         ELSE YieldStar(f)
  /\ UNCHANGED <<input, result, out, finished, validation, thrown>>

\* the suffix is dropped
Concat_PrefixOnly(prefix, suffix) == prefix

\* the suffix first
Concat_SuffixFirst(prefix, suffix) == suffix \o prefix

\* prefix.concat(suffix)
Concat(prefix, suffix) == prefix \o suffix

\* Sequence.concatenateSequence
StepConcatenateSequence ==
  /\ Running("concatenateSequence")
  /\ LET f == heap[Top]
         n == Len(heap)
     IN CASE f.pc = "start" /\ Len(f.sequence) = 0 ->
               Yield([f EXCEPT !.pc = "end"], Skeleton(<<>>))
          [] f.pc = "start" /\ Len(f.sequence) = 1 ->
               BeginYieldStar(f, Generate(f.sequence[1], f.expandLabels))
          [] f.pc = "start" /\ Len(f.sequence) > 1 ->
               MakeAndCall([f EXCEPT !.inner = n + 3, !.pc = "forWait"],
                           <<Generate(f.sequence[1], f.expandLabels),
                             concatenateSequence(Tail(f.sequence),
                                                 f.expandLabels),
                             NewEveryCombination(n + 1, n + 2)>>,
                           n + 3)
          [] f.pc = "for" -> CallNext([f EXCEPT !.pc = "forWait"], f.inner)
          [] f.pc = "forWait" ->
               IF ret.done THEN Return(f)
               ELSE Yield([f EXCEPT !.pc = "for"],
                          Skeleton(Concat(Untyped(ret.value)[1],
                                          Untyped(ret.value)[2])))
          [] f.pc \in {"yieldStar", "yieldStarWait", "end", "done"} ->
               YieldStar(f)
  /\ UNCHANGED <<input, result, out, finished, validation, thrown>>

\* iterators.clear()
Delete_All(iterators, pos) == <<>>

\* nothing is removed, the next one is asked
Delete_Nothing(iterators, pos) ==
  SubSeq(iterators, pos + 1, Len(iterators)) \o SubSeq(iterators, 1, pos)

\* iterators.delete(iter)
Delete(iterators, pos) ==
  SubSeq(iterators, 1, pos - 1) \o SubSeq(iterators, pos + 1, Len(iterators))

\* Choice.generate
StepChoice ==
  /\ Running("Choice")
  /\ LET f == heap[Top]
         n == Len(heap)
         choices == Nodes[f.node].choices
     IN CASE f.pc = "start" /\ Len(choices) = 1 ->
               BeginYieldStar(f, Generate(choices[1], f.expandLabels))
          [] f.pc = "start" /\ Len(choices) # 1 ->
               Make([f EXCEPT !.iterators = [k \in 1..Len(choices) |-> n + k],
                              !.pc = "while"],
                    [k \in 1..Len(choices) |->
                       Generate(choices[k], f.expandLabels)])
          [] f.pc = "while" ->
               IF f.iterators = <<>> THEN Return(f)
               ELSE Goto([f EXCEPT !.pos = 1, !.pc = "for"])
          [] f.pc = "for" ->
               IF f.pos > Len(f.iterators)
                 THEN Goto([f EXCEPT !.pc = "while"])
                 ELSE CallNext([f EXCEPT !.pc = "forWait"], f.iterators[f.pos])
          [] f.pc = "forWait" ->
               IF ret.done
                 THEN Goto([f EXCEPT !.iterators = Delete(f.iterators, f.pos),
                                     !.pc = "for"])
                 ELSE Yield([f EXCEPT !.pos = f.pos + 1, !.pc = "for"],
                            ret.value)
          [] f.pc \in {"yieldStar", "yieldStarWait", "end", "done"} ->
               YieldStar(f)
  /\ UNCHANGED <<input, result, out, finished, validation, thrown>>

\* LabeledProduction.generate
StepLabeledProduction ==
  /\ Running("LabeledProduction")
  /\ LET f == heap[Top] IN
       IF f.pc = "start"
         THEN IF f.expandLabels
                THEN BeginYieldStar(f, Generate(Nodes[f.node].production, TRUE))
                ELSE Yield([f EXCEPT !.pc = "end"],
                           Skeleton(<<Placeholder(Nodes[f.node].label)>>))
         ELSE YieldStar(f)
  /\ UNCHANGED <<input, result, out, finished, validation, thrown>>

(***************************************************************************)
(* Label expansion (Generator.expandLabels).  What it computes eagerly,    *)
(* with [... ], from finite arrays is computed here by operators that      *)
(* follow the generators of util.ts statement by statement.                *)
(***************************************************************************)
Min2(a, b) == IF a <= b THEN a ELSE b

RECURSIVE MaxOf(_)
MaxOf(numbers) ==
  IF numbers = <<>> THEN 0 ELSE Max2(Head(numbers), MaxOf(Tail(numbers)))

RECURSIVE Flatten(_)
Flatten(lists) ==
  IF lists = <<>> THEN <<>> ELSE Head(lists) \o Flatten(Tail(lists))

\* util.ts:116-117: the largest number the next position may take
MaxToCountTo_Any(subLabelling, numberOfChoices) == numberOfChoices - 1

MaxToCountTo_NoNew(subLabelling, numberOfChoices) ==
  Min2(MaxOf(subLabelling), numberOfChoices - 1)

MaxToCountTo(subLabelling, numberOfChoices) ==
  Min2(MaxOf(subLabelling) + 1, numberOfChoices - 1)

\* util.ts:103-122, for count >= 1 (with count < 1 and a nonempty alphabet
\* the recursion of lines 113-114 does not end)
RECURSIVE everyLabellingHelper(_, _)
everyLabellingHelper(numberOfChoices, count) ==
  IF numberOfChoices = 0 THEN <<>>
  ELSE IF count = 1 THEN << <<0>> >>
  ELSE The({Flatten([s \in 1..Len(smallerLabellings) |->
                       LET subLabelling == smallerLabellings[s]
                           maxToCountTo == MaxToCountTo(subLabelling,
                                                        numberOfChoices)
                       IN [i \in 1..(maxToCountTo + 1) |->
                             Append(subLabelling, i - 1)]]) :
            smallerLabellings \in
              {everyLabellingHelper(numberOfChoices, count - 1)}})

\* util.ts:96-101
everyLabelling(choices, count) ==
  The({[l \in 1..Len(numbered) |->
          [j \in 1..Len(numbered[l]) |-> choices[numbered[l][j] + 1]]] :
       numbered \in {everyLabellingHelper(Len(choices), count)}})

\* [...everyCombination(lefts, rights)] of two arrays: the rounds of
\* util.ts:9-42 from round max on
RECURSIVE everyCombinationFrom(_, _, _, _, _)
everyCombinationFrom(lefts, rights, max, leftsDone, rightsDone) ==
  LET leftHere == ~leftsDone /\ max < Len(lefts)
      rightHere == ~rightsDone /\ max < Len(rights)
      first == IF leftHere
                 THEN [i \in 1..Min2(max, Len(rights)) |->
                         <<lefts[max + 1], rights[i]>>]
                 ELSE <<>>
      second == IF rightHere
                  THEN [i \in 1..Min2(max + 1, Len(lefts)) |->
                          <<lefts[i], rights[max + 1]>>]
                  ELSE <<>>
  IN first \o second \o
       (IF ~leftHere /\ ~rightHere THEN <<>>
        ELSE everyCombinationFrom(lefts, rights, max + 1,
                                  ~leftHere, ~rightHere))

\* [prefix].concat(suffix), util.ts:61
Prepend_After(prefix, suffix) == suffix \o <<prefix>>

Prepend(prefix, suffix) == <<prefix>> \o suffix

\* [...everyCombinationMany(iterators)] of arrays, util.ts:45-63
RECURSIVE everyCombinationMany(_)
everyCombinationMany(iterators) ==
  IF Len(iterators) = 0 THEN << <<>> >>
  ELSE IF Len(iterators) = 1
    THEN [k \in 1..Len(iterators[1]) |-> <<iterators[1][k]>>]
  ELSE The({[k \in 1..Len(pairs) |-> Prepend(pairs[k][1], pairs[k][2])] :
            pairs \in
              {The({everyCombinationFrom(iterators[1], suffixes, 0, FALSE, FALSE) :
                    suffixes \in {everyCombinationMany(Tail(iterators))}})}})

\* the keys of labelsToCounts, in insertion order (lowlevel.ts:338-344)
RECURSIVE LabelsOf_FirstOnly(_, _)
LabelsOf_FirstOnly(results, seen) ==
  IF results = <<>> THEN seen
  ELSE LabelsOf_FirstOnly(Tail(results),
                          IF Head(results).label /\ seen = <<>>
                            THEN Append(seen, Head(results).text)
                            ELSE seen)

RECURSIVE LabelsOf(_, _)
LabelsOf(results, seen) ==
  IF results = <<>> THEN seen
  ELSE LabelsOf(Tail(results),
                IF Head(results).label /\ Head(results).text \notin Range(seen)
                  THEN Append(seen, Head(results).text)
                  ELSE seen)

\* labelsToCounts.get(label)
CountOf(results, label) ==
  Cardinality({k \in 1..Len(results) :
                 results[k].label /\ results[k].text = label})

\* lowlevel.ts:358-360
Reverse(s) == [k \in 1..Len(s) |-> s[Len(s) + 1 - k]]

LabelledLists(labellingsByRuleName) ==
  [k \in 1..Len(labellingsByRuleName) |->
     [l \in 1..Len(labellingsByRuleName[k].labellings) |->
        [rule |-> labellingsByRuleName[k].rule,
         labelling |-> labellingsByRuleName[k].labellings[l]]]]

PairWithRule_Reversed(labellingsByRuleName) ==
  LabelledLists(Reverse(labellingsByRuleName))

PairWithRule(labellingsByRuleName) ==
  [k \in 1..Len(labellingsByRuleName) |->
     [l \in 1..Len(labellingsByRuleName[k].labellings) |->
        [rule |-> labellingsByRuleName[k].rule,
         labelling |-> labellingsByRuleName[k].labellings[l]]]]

\* lowlevel.ts:375-377: labeling[index] of the placeholder's occurrence
LabelAt_First(labeling, index) == labeling[1]

LabelAt(labeling, index) == labeling[index + 1]

\* lowlevel.ts:368-383: the fragments of one sentence, or the Error thrown
RECURSIVE Relabel(_, _, _)
Relabel(results, labelingPairs, before) ==
  IF results = <<>> THEN [error |-> "", text |-> ""]
  ELSE LET v == Head(results)
           index == CountOf(before, v.text)
           known == {k \in 1..Len(labelingPairs) : labelingPairs[k].rule = v.text}
           labeling == labelingPairs[CHOOSE k \in known : \A j \in known : j <= k]
                         .labelling
           this == IF ~v.label THEN v.text
                   ELSE IF known = {} \/ index >= Len(labeling) THEN ""
                   ELSE LabelAt(labeling, index)
       IN IF v.label /\ known = {}
            THEN [error |-> "Internal error, unknown label.", text |-> ""]
          ELSE IF v.label /\ index >= Len(labeling)
            THEN [error |-> "Internal error, ran out of " \o v.text \o " labels.",
                  text |-> ""]
          ELSE The({[error |-> rest.error, text |-> this \o rest.text] :
                    rest \in {Relabel(Tail(results), labelingPairs,
                                      Append(before, v))}})

expandLabels(results) ==
  [kind |-> "expandLabels", pc |-> "start", results |-> results,
   names |-> <<>>, k |-> 0, num |-> 0, choices |-> <<>>, inner |-> 0,
   labellingsByRuleName |-> <<>>, labellings |-> <<>>, j |-> 0]

\* the running generator throws: nothing on the stack catches
Throw(message) ==
  /\ heap' = heap
  /\ stack' = <<>>
  /\ ret' = NoRet
  /\ thrown' = message

StepExpandLabels ==
  /\ Running("expandLabels")
  /\ LET f == heap[Top]
         \* the labellings of the rule whose strings have been taken
         ruleDone == [f EXCEPT
                        !.labellingsByRuleName =
                          Append(@, [rule |-> f.names[f.k],
                                     labellings |->
                                       everyLabelling(
                                         f.choices,
                                         CountOf(f.results, f.names[f.k]))]),
                        !.k = f.k + 1, !.pc = "rule"]
     IN CASE f.pc = "start" ->
               /\ IF LabelsOf(f.results, <<>>) = <<>>
                    THEN Yield([f EXCEPT !.pc = "end"],
                               Typed("string", Join(f.results)))
                    ELSE Goto([f EXCEPT !.names = LabelsOf(f.results, <<>>),
                                        !.k = 1, !.pc = "rule"])
               /\ thrown' = thrown
          [] f.pc = "rule" ->
               /\ IF f.k > Len(f.names)
                    THEN Goto([f EXCEPT
                                 !.labellings =
                                   everyCombinationMany(
                                     PairWithRule(f.labellingsByRuleName)),
                                 !.j = 1, !.pc = "emit"])
                    ELSE Make([f EXCEPT !.inner = Len(heap) + 1,
                                        !.num = CountOf(f.results, f.names[f.k]),
                                        !.choices = <<>>, !.pc = "take"],
                              <<Generate(MapGet(heap[TheGenerator].ruleMap,
                                                f.names[f.k]), TRUE)>>)
               /\ thrown' = thrown
          [] f.pc = "take" ->
               \* take(iter, num), util.ts:5-20
               /\ IF f.num <= 0
                    THEN Goto(ruleDone)
                    ELSE CallNext([f EXCEPT !.pc = "takeWait"], f.inner)
               /\ thrown' = thrown
          [] f.pc = "takeWait" ->
               /\ IF ret.done
                    THEN Goto(ruleDone)
                    ELSE Goto([f EXCEPT !.choices =
                                          Append(@, Join(Untyped(ret.value))),
                                        !.num = f.num - 1, !.pc = "take"])
               /\ thrown' = thrown
          [] f.pc = "emit" ->
               IF f.j > Len(f.labellings)
                 THEN Return(f) /\ thrown' = thrown
                 ELSE LET sentence == Relabel(f.results, f.labellings[f.j], <<>>)
                      IN IF sentence.error # ""
                           THEN Throw(sentence.error)
                           ELSE /\ Yield([f EXCEPT !.j = f.j + 1],
                                         Typed("string", sentence.text))
                                /\ thrown' = thrown
          [] f.pc \in {"end", "done"} ->
               Return(f) /\ thrown' = thrown
  /\ UNCHANGED <<input, result, out, finished, validation>>

\* Generator[Symbol.iterator]
StepGenerator ==
  /\ Running("Generator")
  /\ LET f == heap[Top] IN
       CASE f.pc = "start" ->
              MakeAndCall([f EXCEPT !.inner = Len(heap) + 1,
                                    !.pc = IF f.containsLabels
                                             THEN "blanksWait" ELSE "forWait"],
                          <<Generate(f.root, ~f.containsLabels)>>,
                          Len(heap) + 1)
         [] f.pc = "for" -> CallNext([f EXCEPT !.pc = "forWait"], f.inner)
         [] f.pc = "forWait" ->
              IF ret.done THEN Return(f)
              ELSE Yield([f EXCEPT !.pc = "for"],
                         Typed("string", Join(Untyped(ret.value))))
         [] f.pc = "blanks" ->
              CallNext([f EXCEPT !.pc = "blanksWait"], f.inner)
         [] f.pc = "blanksWait" ->
              IF ret.done THEN Return(f)
              ELSE MakeAndCall([f EXCEPT !.expand = Len(heap) + 1,
                                         !.pc = "expandWait"],
                               <<expandLabels(Untyped(ret.value))>>,
                               Len(heap) + 1)
         [] f.pc = "expand" ->
              CallNext([f EXCEPT !.pc = "expandWait"], f.expand)
         [] f.pc = "expandWait" ->
              IF ret.done THEN Goto([f EXCEPT !.pc = "blanks"])
              ELSE Yield([f EXCEPT !.pc = "expand"], ret.value)
         [] f.pc = "done" -> Return(f)
  /\ UNCHANGED <<input, result, out, finished, validation, thrown>>

\* Language[Symbol.iterator] (ast.ts:127-129): yield* new Generator(this)
LanguageIterator == [kind |-> "Language", pc |-> "start", inner |-> 0]

StepLanguage ==
  /\ Running("Language")
  /\ LET f == heap[Top] IN
       IF f.pc = "start"
         THEN BeginYieldStar(f, NewGenerator(input))
         ELSE YieldStar(f)
  /\ UNCHANGED <<input, result, out, finished, validation, thrown>>

\* the consumer asks the constructed Language for its iterator
Iterate ==
  /\ validation = Valid
  /\ heap = <<>>
  /\ heap' = <<LanguageIterator>>
  /\ UNCHANGED <<input, result, stack, ret, out, finished, validation, thrown>>

(***************************************************************************)
(* Specification Gen: a Language is constructed from a grammar and, when   *)
(* validation passes, take(language, PullCap) is collected into out.       *)
(***************************************************************************)
\* start = "a" bOrCStar; bOrC = "b" | "c"; bOrCStar = e | bOrC bOrCStar;
ABOrCStar ==
  Language("a(b|c)*",
    <<Rule("start", Choice(<<Sequence(<<Literal("a"), Ref("bOrCStar")>>)>>),
           FALSE),
      Rule("bOrC", Choice(<<Literal("b"), Literal("c")>>), FALSE),
      Rule("bOrCStar",
           Choice(<<Epsilon, Sequence(<<Ref("bOrC"), Ref("bOrCStar")>>)>>),
           FALSE)>>)

\* start = e | "a" aStar "b" start; aStar = e | "a" aStar;
ABalanced ==
  Language("(a+b)*",
    <<Rule("start",
           Choice(<<Epsilon,
                    Sequence(<<Literal("a"), Ref("aStar"), Literal("b"),
                               Ref("start")>>)>>),
           FALSE),
      Rule("aStar",
           Choice(<<Epsilon, Sequence(<<Literal("a"), Ref("aStar")>>)>>),
           FALSE)>>)

\* start = e | identifier start; identifier! = "a" | "b" | "c";
LabelledIdentifiers ==
  Language("labels",
    <<Rule("start",
           Choice(<<Epsilon, Sequence(<<Ref("identifier"), Ref("start")>>)>>),
           FALSE),
      Rule("identifier",
           Choice(<<Literal("a"), Literal("b"), Literal("c")>>), TRUE)>>)

\* start = "x" "a"* | "b"+ | "c"?;
Operators ==
  Language("operators",
    <<Rule("start",
           Choice(<<Sequence(<<Literal("x"), Op("*", Literal("a"))>>),
                    Op("+", Literal("b")),
                    Op("?", Literal("c"))>>),
           FALSE)>>)

\* a grammar without rules
NoRules == Language("empty", <<>>)

\* an AST made by hand, not by the parser: the rule body is a sequence of a
\* choice without alternatives and "a"*
EmptyChoiceThenStar ==
  Language("made by hand",
    <<Rule("start", Sequence(<<Choice(<<>>), Op("*", Literal("a"))>>), FALSE)>>)

\* the same sequence as the first alternative, "b" as the second
EmptyChoiceThenStarOrB ==
  Language("made by hand",
    <<Rule("start",
           Choice(<<Sequence(<<Choice(<<>>), Op("*", Literal("a"))>>),
                    Literal("b")>>),
           FALSE)>>)

\* start = identifier "=" identifier "*" number "+" number;
\* identifier! = "foo" | "bar" | "baz"; number! = "0" | "1" | "2";
TwoLabels ==
  Language("multiple labels",
    <<Rule("start",
           Choice(<<Sequence(<<Ref("identifier"), Literal("="),
                               Ref("identifier"), Literal("*"), Ref("number"),
                               Literal("+"), Ref("number")>>)>>),
           FALSE),
      Rule("identifier",
           Choice(<<Literal("foo"), Literal("bar"), Literal("baz")>>), TRUE),
      Rule("number",
           Choice(<<Literal("0"), Literal("1"), Literal("2")>>), TRUE)>>)

\* start = x y z x y z; x! = "a" | "b"; y! = "c" | "d"; z! = "e" | "f";
ThreeLabels ==
  Language("three labels",
    <<Rule("start",
           Choice(<<Sequence(<<Ref("x"), Ref("y"), Ref("z"),
                               Ref("x"), Ref("y"), Ref("z")>>)>>),
           FALSE),
      Rule("x", Choice(<<Literal("a"), Literal("b")>>), TRUE),
      Rule("y", Choice(<<Literal("c"), Literal("d")>>), TRUE),
      Rule("z", Choice(<<Literal("e"), Literal("f")>>), TRUE)>>)

\* start = identifier identifier identifier; identifier! = "a" | "b";
FewerStringsThanPlaceholders ==
  Language("fewer strings",
    <<Rule("start",
           Choice(<<Sequence(<<Ref("identifier"), Ref("identifier"),
                               Ref("identifier")>>)>>),
           FALSE),
      Rule("identifier", Choice(<<Literal("a"), Literal("b")>>), TRUE)>>)

\* start = "foo"+ "bar";
FooPlusBar ==
  Language("foo+bar",
    <<Rule("start",
           Choice(<<Sequence(<<Op("+", Literal("foo")), Literal("bar")>>)>>),
           FALSE)>>)

\* start = "foo"* "bar";
FooStarBar ==
  Language("foo*bar",
    <<Rule("start",
           Choice(<<Sequence(<<Op("*", Literal("foo")), Literal("bar")>>)>>),
           FALSE)>>)

\* start = "foo"? "bar";
FooOptionalBar ==
  Language("foo?bar",
    <<Rule("start",
           Choice(<<Sequence(<<Op("?", Literal("foo")), Literal("bar")>>)>>),
           FALSE)>>)

\* productions to put under "?": a choice, a repetition, a sequence of two
\* choices
Operands ==
  <<Choice(<<Literal("a"), Literal("b"), Literal("c")>>),
    Op("*", Literal("a")),
    Sequence(<<Choice(<<Literal("a"), Literal("b")>>),
               Choice(<<Literal("c"), Literal("d"), Literal("e")>>)>>)>>

\* start = X;
Just(X) == Language("X", <<Rule("start", Choice(<<X>>), FALSE)>>)

\* start = X?;
OptionalOf(X) ==
  Language("X?", <<Rule("start", Choice(<<Op("?", X)>>), FALSE)>>)

\* the rule identifier! = "a" | "b";
Identifier ==
  Rule("identifier", Choice(<<Literal("a"), Literal("b")>>), TRUE)

\* start = identifier identifier; identifier! = "a" | "b";
JustLabelled ==
  Language("X",
    <<Rule("start",
           Choice(<<Sequence(<<Ref("identifier"), Ref("identifier")>>)>>),
           FALSE),
      Identifier>>)

\* start = (identifier identifier)?; identifier! = "a" | "b";
OptionalOfLabelled ==
  Language("X?",
    <<Rule("start",
           Choice(<<Op("?", Sequence(<<Ref("identifier"),
                                       Ref("identifier")>>))>>),
           FALSE),
      Identifier>>)

UnaryLanguages ==
  {FooPlusBar, FooStarBar, FooOptionalBar, JustLabelled, OptionalOfLabelled}
    \cup {Just(Operands[k]) : k \in 1..Len(Operands)}
    \cup {OptionalOf(Operands[k]) : k \in 1..Len(Operands)}

GenLanguages ==
  {BStarA, AStarEmptyFirst, ABOrCStar, ABalanced, LabelledIdentifiers,
   Operators, NoRules, EmptyChoiceThenStar, EmptyChoiceThenStarOrB,
   LoopDirect, UndeclaredOnly, TwoLabels, ThreeLabels,
   FewerStringsThanPlaceholders}

InitGen ==
  /\ input \in GenLanguages
  /\ heap = <<>>
  /\ stack = <<>>
  /\ ret = NoRet
  /\ out = <<>>
  /\ finished = FALSE
  /\ validation = Pending
  /\ thrown = ""
  /\ result = NoResult

NextGen ==
  \/ Construct
  \/ Iterate
  \/ Pull
  \/ Deliver
  \/ StepLanguage
  \/ StepGenerator
  \/ StepExpandLabels
  \/ StepLiteral
  \/ StepSequence
  \/ StepConcatenateSequence
  \/ StepChoice
  \/ StepLabeledProduction
  \/ StepEveryCombination

SpecGen == InitGen /\ [][NextGen]_vars

\* the consumer's loop and the generators it drives keep running
FairGen == SpecGen /\ WF_vars(NextGen)

(***************************************************************************)
(* Specification Unary: the languages of the EBNF unary operator tests     *)
(* (parser/ast.ts, suite 'EBNF unary operators'), and productions alone    *)
(* and under "?"                                                           *)
(***************************************************************************)
InitUnary ==
  /\ input \in UnaryLanguages
  /\ heap = <<>>
  /\ stack = <<>>
  /\ ret = NoRet
  /\ out = <<>>
  /\ finished = FALSE
  /\ validation = Pending
  /\ thrown = ""
  /\ result = NoResult

NextUnary ==
  \/ Construct
  \/ Iterate
  \/ Pull
  \/ Deliver
  \/ StepLanguage
  \/ StepGenerator
  \/ StepExpandLabels
  \/ StepLiteral
  \/ StepSequence
  \/ StepConcatenateSequence
  \/ StepChoice
  \/ StepLabeledProduction
  \/ StepEveryCombination

SpecUnary == InitUnary /\ [][NextUnary]_vars

(***************************************************************************)
(* Specification Two: two iterations of one Language, their pulls taken in *)
(* any order.  A pull runs to its yield or return before the next starts.  *)
(***************************************************************************)
MaxPulls == 4

TwoLanguages == {BStarA, ABalanced, LabelledIdentifiers, FooOptionalBar}

\* the iterators of both iterations: the same object for both
RootOf_Shared(k) == 1

\* the iterator of the k-th iteration: language[Symbol.iterator]() makes a
\* new one at every call
RootOf(k) == k

InitTwo ==
  /\ input \in TwoLanguages
  /\ heap = <<>>
  /\ stack = <<>>
  /\ ret = NoRet
  /\ out = <<<<>>, <<>>>>
  /\ finished = <<FALSE, FALSE>>
  /\ validation = Pending
  /\ thrown = ""
  /\ result = NoResult

\* both consumers ask the constructed Language for an iterator
IterateTwice ==
  /\ validation = Valid
  /\ heap = <<>>
  /\ heap' = <<LanguageIterator, LanguageIterator>>
  /\ UNCHANGED <<input, result, stack, ret, out, finished, validation, thrown>>

\* one of the two consumers calls next() on its iterator
PullOn ==
  /\ heap # <<>>
  /\ stack = <<>>
  /\ ~ret.set
  /\ \E k \in 1..2 :
       /\ ~finished[k]
       /\ Len(out[k]) < MaxPulls
       /\ stack' = <<RootOf(k)>>
       /\ result' = Typed("pull", k)
  /\ UNCHANGED <<input, heap, ret, out, finished, validation, thrown>>

\* the consumer that pulled receives the sentence, or the end
DeliverTo ==
  /\ stack = <<>>
  /\ ret.set
  /\ LET k == Untyped(result) IN
       IF ret.done
         THEN finished' = [finished EXCEPT ![k] = TRUE] /\ out' = out
         ELSE /\ finished' = finished
              /\ out' = [out EXCEPT ![k] = Append(@, Untyped(ret.value))]
  /\ ret' = NoRet
  /\ result' = NoResult
  /\ UNCHANGED <<input, heap, stack, validation, thrown>>

NextTwo ==
  \/ Construct
  \/ IterateTwice
  \/ PullOn
  \/ DeliverTo
  \/ StepLanguage
  \/ StepGenerator
  \/ StepExpandLabels
  \/ StepLiteral
  \/ StepSequence
  \/ StepConcatenateSequence
  \/ StepChoice
  \/ StepLabeledProduction
  \/ StepEveryCombination

SpecTwo == InitTwo /\ [][NextTwo]_vars

(***************************************************************************)
(* Specification Choice: languages whose rule is a choice of up to         *)
(* MaxAlternatives alternatives with streams of 0, 1, 2 and 3 values, and  *)
(* choices with an unending alternative                                    *)
(***************************************************************************)
MaxAlternatives == 3

Alternatives ==
  {Choice(<<>>),
   Literal("x"),
   Choice(<<Literal("p"), Literal("q")>>),
   Choice(<<Literal("u"), Literal("v"), Literal("w")>>)}

\* choices with the unending "a"* first, in the middle, last and alone
WithUnending ==
  {<<Op("*", Literal("a")), Choice(<<Literal("p"), Literal("q")>>)>>,
   <<Literal("x"), Op("*", Literal("a")), Choice(<<>>)>>,
   <<Choice(<<Literal("u"), Literal("v"), Literal("w")>>),
     Op("*", Literal("a"))>>,
   <<Op("*", Literal("a"))>>}

\* start = Q_0 | .. | Q_(k-1);
ChoiceOf(choices) == Language("choice", <<Rule("start", Choice(choices), FALSE)>>)

ChoiceLanguages ==
  {ChoiceOf(choices) :
     choices \in WithUnending
                   \cup UNION {[1..k -> Alternatives] : k \in 0..MaxAlternatives}}

InitChoice ==
  /\ input \in ChoiceLanguages
  /\ heap = <<>>
  /\ stack = <<>>
  /\ ret = NoRet
  /\ out = <<>>
  /\ finished = FALSE
  /\ validation = Pending
  /\ thrown = ""
  /\ result = NoResult

NextChoice ==
  \/ Construct
  \/ Iterate
  \/ Pull
  \/ Deliver
  \/ StepLanguage
  \/ StepGenerator
  \/ StepLiteral
  \/ StepSequence
  \/ StepConcatenateSequence
  \/ StepChoice
  \/ StepEveryCombination

SpecChoice == InitChoice /\ [][NextChoice]_vars

(***************************************************************************)
(* Specification Sequence: languages whose rule is a sequence of up to     *)
(* MaxElements elements with streams of 0, 1, 2 and 3 values, and          *)
(* sequences with an unending element                                      *)
(***************************************************************************)
MaxElements == 3

\* sequences with the unending "a"* last and first
WithUnendingElement ==
  {<<Literal("x"), Op("*", Literal("a"))>>,
   <<Op("*", Literal("a")), Choice(<<Literal("p"), Literal("q")>>)>>}

\* start = P_0 .. P_(n-1);
SequenceOf(productions) ==
  Language("sequence", <<Rule("start", Sequence(productions), FALSE)>>)

SequenceLanguages ==
  {SequenceOf(productions) :
     productions \in WithUnendingElement
                       \cup UNION {[1..n -> Alternatives] : n \in 0..MaxElements}}

InitSequence ==
  /\ input \in SequenceLanguages
  /\ heap = <<>>
  /\ stack = <<>>
  /\ ret = NoRet
  /\ out = <<>>
  /\ finished = FALSE
  /\ validation = Pending
  /\ thrown = ""
  /\ result = NoResult

NextSequence ==
  \/ Construct
  \/ Iterate
  \/ Pull
  \/ Deliver
  \/ StepLanguage
  \/ StepGenerator
  \/ StepLiteral
  \/ StepSequence
  \/ StepConcatenateSequence
  \/ StepChoice
  \/ StepEveryCombination

SpecSequence == InitSequence /\ [][NextSequence]_vars

(***************************************************************************)
(* Specification Alphabet: languages with a labeled rule whose stream      *)
(* holds a string more than once, and the labelled language of the tests   *)
(***************************************************************************)
\* start = identifier identifier; identifier! = "a" | "a" | "b";
RepeatedAlternative ==
  Language("repeated alternative",
    <<Rule("start",
           Choice(<<Sequence(<<Ref("identifier"), Ref("identifier")>>)>>),
           FALSE),
      Rule("identifier",
           Choice(<<Literal("a"), Literal("a"), Literal("b")>>), TRUE)>>)

\* start = identifier identifier; identifier! = "a"? "a"?;
TwoOptionalLetters ==
  Language("two optional letters",
    <<Rule("start",
           Choice(<<Sequence(<<Ref("identifier"), Ref("identifier")>>)>>),
           FALSE),
      Rule("identifier",
           Choice(<<Sequence(<<Op("?", Literal("a")), Op("?", Literal("a"))>>)>>),
           TRUE)>>)

AlphabetLanguages == {RepeatedAlternative, TwoOptionalLetters, LabelledIdentifiers}

InitAlphabet ==
  /\ input \in AlphabetLanguages
  /\ heap = <<>>
  /\ stack = <<>>
  /\ ret = NoRet
  /\ out = <<>>
  /\ finished = FALSE
  /\ validation = Pending
  /\ thrown = ""
  /\ result = NoResult

SpecAlphabet == InitAlphabet /\ [][NextGen]_vars

(***************************************************************************)
(* Specification Labels: grammars whose root is a sequence of at most      *)
(* MaxPlaceholders references to the labeled rules x and y and literals;   *)
(* x has no, one or two strings, y has "c" and either the empty string or  *)
(* the strings of x.                                                       *)
(***************************************************************************)
MaxPlaceholders == 3

RECURSIVE PlaceholderLists(_)
PlaceholderLists(n) ==
  IF n = 0 THEN {<<>>}
  ELSE {Append(l, e) : l \in PlaceholderLists(n - 1),
                       e \in {Ref("x"), Ref("y"), Literal("-")}}

RootBodies ==
  {IF Len(l) = 1 THEN Choice(<<l[1]>>) ELSE Choice(<<Sequence(l)>>) :
     l \in {m \in UNION {PlaceholderLists(n) : n \in 1..MaxPlaceholders} :
              \E k \in 1..Len(m) : m[k].kind = "rule"}}

LabelBodiesX ==
  {Choice(<<>>), Choice(<<Literal("a")>>),
   Choice(<<Literal("a"), Literal("b")>>)}

LabelBodiesY ==
  {Choice(<<Epsilon, Literal("c")>>), Choice(<<Literal("c"), Ref("x")>>)}

LabelLanguages ==
  {Language("labels",
     <<Rule("start", root, FALSE), Rule("x", bx, TRUE), Rule("y", by, TRUE)>>) :
     root \in RootBodies, bx \in LabelBodiesX, by \in LabelBodiesY}

InitLabels ==
  /\ input \in LabelLanguages
                \cup {LabelledIdentifiers, TwoLabels, ThreeLabels,
                      FewerStringsThanPlaceholders, RepeatedAlternative}
  /\ heap = <<>>
  /\ stack = <<>>
  /\ ret = NoRet
  /\ out = <<>>
  /\ finished = FALSE
  /\ validation = Pending
  /\ thrown = ""
  /\ result = NoResult

SpecLabels == InitLabels /\ [][NextGen]_vars

(***************************************************************************)
(* Claims about the language iterator.  The language of a grammar is       *)
(* computed from the AST as the least solution of its rules, cut at        *)
(* SentenceLen characters.                                                 *)
(***************************************************************************)
SentenceLen == 2

ConcatUpTo(S, T) ==
  {x \in {p[1] \o p[2] : p \in S \X T} : Len(x) <= SentenceLen}

RECURSIVE StarUpTo(_, _)
StarUpTo(S, X) ==
  LET next == X \cup ConcatUpTo(X, S) IN
    IF next = X THEN X ELSE StarUpTo(S, next)

RECURSIVE Derives(_, _)
RECURSIVE DerivesInOrder(_, _)

Derives(production, env) ==
  CASE production.kind = "literal" ->
         IF Len(production.value) <= SentenceLen THEN {production.value} ELSE {}
    [] production.kind = "rule" -> env[production.name]
    [] production.kind = "sequence" ->
         DerivesInOrder(production.productions, env)
    [] production.kind = "choice" ->
         UNION {Derives(production.choices[j], env) :
                  j \in 1..Len(production.choices)}
    [] production.kind = "unaryOperator" ->
         LET S == Derives(production.production, env) IN
           IF production.operator = "*" THEN StarUpTo(S, {""})
           ELSE IF production.operator = "+"
             THEN ConcatUpTo(S, StarUpTo(S, {""}))
           ELSE S \cup {""}

DerivesInOrder(productions, env) ==
  IF productions = <<>> THEN {""}
  ELSE ConcatUpTo(Derives(Head(productions), env),
                  DerivesInOrder(Tail(productions), env))

RECURSIVE LeastSolution(_, _)
LeastSolution(language, env) ==
  LET next == [name \in DOMAIN env |->
                 Derives(FindRule(language, name).production, env)]
  IN IF next = env THEN env ELSE LeastSolution(language, next)

\* the sentences of at most SentenceLen characters of a validated grammar
SentencesUpTo(language) ==
  IF language.rules = <<>> THEN {}
  ELSE LeastSolution(language,
                     [name \in {language.rules[k].name :
                                  k \in 1..Len(language.rules)} |-> {}])
         [language.rules[1].name]

NoLabeledRule ==
  \A k \in 1..Len(input.rules) : ~input.rules[k].labeled

ExpandCalls == SelectSeq([o \in 1..Len(heap) |-> o],
                         LAMBDA o : heap[o].kind = "expandLabels")

\* how many sentences a call has yielded
EmittedCount(f) ==
  IF f.names = <<>>
    THEN (IF f.pc \in {"end", "done"} THEN 1 ELSE 0)
    ELSE (IF f.pc \in {"emit", "done"} THEN f.j - 1 ELSE 0)

\* a call has returned
Exhausted(f) == f.pc = "done"

\* no pull is in progress and nothing waits to be delivered
Quiescent == stack = <<>> /\ ~ret.set

\* two sequences are equal at the same pairs of positions
SamePattern(a, b) ==
  /\ Len(a) = Len(b)
  /\ \A i, j \in 1..Len(a) : (a[i] = a[j]) <=> (b[i] = b[j])

\* two assignments of labellings differ, but only by renaming, rule by rule,
\* the strings they substitute
DifferOnlyByRenaming(A, B) ==
  /\ A # B
  /\ Len(A) = Len(B)
  /\ \A k \in 1..Len(A) :
       /\ A[k].rule = B[k].rule
       /\ SamePattern(A[k].labelling, B[k].labelling)

\* C12: among the sentences emitted for one skeleton no two come from
\* assignments that differ only by a one-to-one renaming of the substituted
\* strings
C12_LabelDeduplication ==
  \A c \in 1..Len(ExpandCalls) :
    LET f == heap[ExpandCalls[c]] IN
      \A a, b \in 1..EmittedCount(f) :
        (f.names # <<>> /\ a < b)
          => ~DifferOnlyByRenaming(f.labellings[a], f.labellings[b])

\* a skeleton of three placeholders has yielded its five sentences, among
\* them one that repeats a string and one that does not
C12_Witness ==
  \E c \in 1..Len(ExpandCalls) :
    LET f == heap[ExpandCalls[c]] IN
      /\ input = LabelledIdentifiers
      /\ Len(f.names) = 1
      /\ EmittedCount(f) = 5
      /\ \E a, b \in 1..5 :
           /\ f.labellings[a][1].labelling = <<"a", "b", "b">>
           /\ f.labellings[b][1].labelling = <<"a", "b", "c">>

\* the labeled rules of the grammar
LabeledRules == {k \in RuleIndices : input.rules[k].labeled}

\* the strings a labeled rule yields, read off its body, a choice of literals
StringsOfRule(name) ==
  LET rule == input.rules[CHOOSE k \in RuleIndices : input.rules[k].name = name]
  IN [j \in 1..Len(rule.production.choices) |->
        rule.production.choices[j].value]

\* the largest of the first j numbers of c
Largest(c, j) == CHOOSE x \in {c[i] : i \in 1..j} : \A i \in 1..j : c[i] <= x

\* c_0 = 0 and 0 <= c_j <= min(1 + max(c_0..c_(j-1)), m - 1)
IsCanonical(c, m) ==
  /\ c[1] = 0
  /\ \A j \in 2..Len(c) : c[j] <= Min2(1 + Largest(c, j - 1), m - 1)

Canonical(m, k) == {c \in [1..k -> 0..(m - 1)] : IsCanonical(c, m)}

LexLess(a, b) ==
  \E i \in 1..Len(a) : a[i] < b[i] /\ \A j \in 1..(i - 1) : a[j] = b[j]

RECURSIVE InLexOrder(_)
InLexOrder(S) ==
  IF S = {} THEN <<>>
  ELSE LET least == CHOOSE x \in S : \A y \in S \ {x} : LexLess(x, y)
       IN <<least>> \o InLexOrder(S \ {least})

\* the labellings of k placeholders over the first min(k, Len(strings))
\* strings, in lexicographic order of their number sequences
ExpectedLabellings(strings, k) ==
  LET numbered == InLexOrder(Canonical(Min2(k, Len(strings)), k))
  IN [l \in 1..Len(numbered) |-> [j \in 1..k |-> strings[numbered[l][j] + 1]]]

\* the tuples of one element per list, in the order in which everyCombination
\* pairs the first list with the tuples of the remaining lists
RECURSIVE ExpectedMany(_)
ExpectedMany(lists) ==
  IF lists = <<>> THEN << <<>> >>
  ELSE IF Len(lists) = 1 THEN [k \in 1..Len(lists[1]) |-> <<lists[1][k]>>]
  ELSE LET suffixes == ExpectedMany(Tail(lists))
           pairs == ExpectedOrder([lenA |-> Len(lists[1]), lenB |-> Len(suffixes)],
                                  0, Max2(Len(lists[1]), Len(suffixes)))
       IN [k \in 1..Len(pairs) |->
             <<lists[1][pairs[k][1]]>> \o suffixes[pairs[k][2]]]

\* the placeholders' rules in order of first occurrence in the skeleton
NamesInOrder(results) ==
  LET firsts == SelectSeq([i \in 1..Len(results) |-> i],
                          LAMBDA i : /\ results[i].label
                                     /\ \A j \in 1..(i - 1) :
                                          ~(results[j].label
                                            /\ results[j].text = results[i].text))
  IN [n \in 1..Len(firsts) |-> results[firsts[n]].text]

Occurrences(results, name, upTo) ==
  Cardinality({i \in 1..upTo : results[i].label /\ results[i].text = name})

RECURSIVE ConcatAll(_)
ConcatAll(strings) ==
  IF strings = <<>> THEN "" ELSE Head(strings) \o ConcatAll(Tail(strings))

\* the skeleton with the i-th placeholder of each rule replaced by the i-th
\* element of that rule's labelling
Substitute(results, names, assignment) ==
  ConcatAll([i \in 1..Len(results) |->
    IF ~results[i].label THEN results[i].text
    ELSE LET n == CHOOSE x \in 1..Len(names) : names[x] = results[i].text
         IN assignment[n][Occurrences(results, results[i].text, i)]])

ExpectedSentences(results) ==
  LET names == NamesInOrder(results)
      lists == [n \in 1..Len(names) |->
                  ExpectedLabellings(StringsOfRule(names[n]),
                                     Occurrences(results, names[n], Len(results)))]
      assignments == ExpectedMany(lists)
  IN [a \in 1..Len(assignments) |-> Substitute(results, names, assignments[a])]

\* every expandLabels call has yielded a prefix of the sentences expected of
\* its skeleton, all of them once it has returned, and the output is these
\* prefixes one call after the other
ExpansionAsExpected ==
  LET expected == [c \in 1..Len(ExpandCalls) |->
                     ExpectedSentences(heap[ExpandCalls[c]].results)]
  IN /\ \A c \in 1..Len(ExpandCalls) :
          LET f == heap[ExpandCalls[c]] IN
            /\ EmittedCount(f) <= Len(expected[c])
            /\ Exhausted(f) => EmittedCount(f) = Len(expected[c])
     /\ Quiescent =>
          out = Flatten([c \in 1..Len(ExpandCalls) |->
                           SubSeq(expected[c], 1,
                                  EmittedCount(heap[ExpandCalls[c]]))])

FirstTenLabelled ==
  <<"", "a", "aa", "ab", "aaa", "aab", "aba", "abb", "abc", "aaaa">>

\* C13: with one labeled rule, every skeleton expands to one sentence per
\* labelling over the first min(k, available) strings of the rule, in
\* labelling order, the i-th placeholder replaced by the labelling's i-th
\* element; too few strings is no error; the documented grammar begins with
\* the ten sentences the spec lists
C13_SingleLabelExpansion ==
  (validation.ok /\ Cardinality(LabeledRules) = 1) =>
    /\ ExpansionAsExpected
    /\ thrown = ""
    /\ (input = LabelledIdentifiers /\ Len(out) >= 10)
         => SubSeq(out, 1, 10) = FirstTenLabelled
    /\ (input = FewerStringsThanPlaceholders /\ finished)
         => out = <<"aaa", "aab", "aba", "abb">>

C13_Witness ==
  /\ input = FewerStringsThanPlaceholders
  /\ finished
  /\ Len(out) = 4
  /\ thrown = ""

RECURSIVE Product(_)
Product(numbers) ==
  IF numbers = <<>> THEN 1 ELSE Head(numbers) * Product(Tail(numbers))

\* C14: with several labeled rules, every skeleton expands to the
\* combinations of one labelling per rule, each once, as many as the product
\* of the rules' labelling counts, in the order everyCombinationMany gives
\* the rules' labelling lists taken by first occurrence in the skeleton
C14_MultiLabelExpansion ==
  (validation.ok /\ Cardinality(LabeledRules) >= 2) =>
    /\ ExpansionAsExpected
    /\ \A c \in 1..Len(ExpandCalls) :
         LET f == heap[ExpandCalls[c]]
             names == NamesInOrder(f.results)
         IN Exhausted(f) =>
              EmittedCount(f) =
                Product([n \in 1..Len(names) |->
                           Len(ExpectedLabellings(
                                 StringsOfRule(names[n]),
                                 Occurrences(f.results, names[n], Len(f.results))))])
    /\ (input = TwoLabels /\ finished)
         => out = <<"foo=foo*0+0", "foo=bar*0+0", "foo=foo*0+1", "foo=bar*0+1">>

C14_Witness ==
  /\ input = ThreeLabels
  /\ finished
  /\ Len(out) = 8
  /\ out[2] = "acebce"
  /\ out[3] = "aceade"

(***************************************************************************)
(* Specification Util: one call of everyLabelling or of                    *)
(* everyCombinationMany (generator/util.ts) on arrays, collected with      *)
(* [...spread] as the tests and expandLabels do.                           *)
(***************************************************************************)
MaxChoices == 3

MaxCount == 4

MaxStreams == 3

Letters == <<"a", "b", "c", "d", "e", "f">>

\* abc() of the tests, cut to n letters
Abc(n) == SubSeq(Letters, 1, n)

RECURSIVE ListsOf(_, _)
ListsOf(S, n) ==
  IF n = 0 THEN {<<>>}
  ELSE {Append(l, x) : l \in ListsOf(S, n - 1), x \in S}

LabellingCalls ==
  {[function |-> "everyLabelling", choices |-> Abc(m), count |-> k,
    iterators |-> <<>>] : m \in 0..MaxChoices, k \in 0..MaxCount}

ManyCalls ==
  {[function |-> "everyCombinationMany", choices |-> <<>>, count |-> 0,
    iterators |-> l] :
     l \in UNION {ListsOf({Abc(n) : n \in 0..MaxLen}, s) : s \in 0..MaxStreams}}

\* util.ts:107-114: with choices to take and count below 1 the recursion
\* passes count === 1 by and never ends; the engine gives up with this error
RangeError == "Maximum call stack size exceeded"

RecursesForever(numberOfChoices, count) ==
  numberOfChoices # 0 /\ count < 1

CallEveryLabelling ==
  /\ input.function = "everyLabelling"
  /\ result = NoResult
  /\ thrown = ""
  /\ IF RecursesForever(Len(input.choices), input.count)
       THEN thrown' = RangeError /\ result' = result
       ELSE /\ thrown' = thrown
            /\ result' = Typed("array", everyLabelling(input.choices, input.count))
  /\ UNCHANGED <<input, heap, stack, ret, out, finished, validation>>

CallEveryCombinationMany ==
  /\ input.function = "everyCombinationMany"
  /\ result = NoResult
  /\ result' = Typed("array", everyCombinationMany(input.iterators))
  /\ UNCHANGED <<input, heap, stack, ret, out, finished, validation, thrown>>

InitUtil ==
  /\ input \in LabellingCalls \cup ManyCalls
  /\ heap = <<>>
  /\ stack = <<>>
  /\ ret = NoRet
  /\ out = <<>>
  /\ finished = FALSE
  /\ validation = Valid
  /\ thrown = ""
  /\ result = NoResult

NextUtil == CallEveryLabelling \/ CallEveryCombinationMany

SpecUtil == InitUtil /\ [][NextUtil]_vars

(***************************************************************************)
(* Claims about everyLabelling and everyCombinationMany                    *)
(***************************************************************************)
Returned(function) == input.function = function /\ result # NoResult

NoRepeats(list) == \A a, b \in 1..Len(list) : a # b => list[a] # list[b]

\* C15: for m >= 1 letters and k >= 1 positions the result is the letters
\* of every number sequence c with c_0 = 0 and
\* 0 <= c_j <= min(1 + max(c_0..c_(j-1)), m - 1), each once, in lexicographic
\* order of the number sequences; (a,b,c) and 3 give aaa, aab, aba, abb, abc
C15_CanonicalLabellings ==
  (Returned("everyLabelling") /\ Len(input.choices) >= 1 /\ input.count >= 1) =>
    LET numbered == InLexOrder(Canonical(Len(input.choices), input.count))
        labellings == Untyped(result)
    IN /\ labellings = [l \in 1..Len(numbered) |->
                          [j \in 1..input.count |->
                             input.choices[numbered[l][j] + 1]]]
       /\ NoRepeats(labellings)
       /\ (input.choices = <<"a", "b", "c">> /\ input.count = 3) =>
            labellings = << <<"a", "a", "a">>, <<"a", "a", "b">>,
                            <<"a", "b", "a">>, <<"a", "b", "b">>,
                            <<"a", "b", "c">> >>

C15_Witness ==
  /\ Returned("everyLabelling")
  /\ input.choices = <<"a", "b", "c">>
  /\ input.count = 3
  /\ Len(Untyped(result)) = 5

\* the number of partitions of a set of k elements into exactly b blocks
RECURSIVE Stirling(_, _)
Stirling(k, b) ==
  IF k = 0 /\ b = 0 THEN 1
  ELSE IF k = 0 \/ b = 0 THEN 0
  ELSE b * Stirling(k - 1, b) + Stirling(k - 1, b - 1)

RECURSIVE PartitionsAtMost(_, _)
PartitionsAtMost(k, m) ==
  IF m < 0 THEN 0 ELSE Stirling(k, m) + PartitionsAtMost(k, m - 1)

Called == result # NoResult \/ thrown # ""

\* C16 as stated: for every m >= 0 and k >= 0 the call ends and yields as
\* many sequences as a set of k elements has partitions into at most m
\* blocks, and nothing when m = 0
C16_Original ==
  (Called /\ input.function = "everyLabelling") =>
    /\ thrown = ""
    /\ Len(Untyped(result)) =
         IF Len(input.choices) = 0 THEN 0
         ELSE PartitionsAtMost(input.count, Len(input.choices))

\* for k >= 1 the count is as C16 states
LabellingCountFromOne ==
  (Called /\ input.function = "everyLabelling" /\ input.count >= 1) =>
    /\ thrown = ""
    /\ Len(Untyped(result)) =
         IF Len(input.choices) = 0 THEN 0
         ELSE PartitionsAtMost(input.count, Len(input.choices))

\* the Cartesian product of the streams, as a set of tuples
ProductOf(iterators) ==
  {t \in [1..Len(iterators) -> Range(Letters)] :
     \A k \in 1..Len(iterators) : t[k] \in Range(iterators[k])}

TestedOrderOfThree ==
  << <<"a", "a", "a">>, <<"b", "a", "a">>, <<"a", "b", "a">>, <<"b", "b", "a">>,
     <<"c", "a", "a">>, <<"c", "b", "a">>, <<"a", "a", "b">>, <<"b", "a", "b">>,
     <<"c", "a", "b">>, <<"a", "b", "b">>, <<"b", "b", "b">>, <<"c", "b", "b">>,
     <<"a", "c", "a">>, <<"b", "c", "a">>, <<"c", "c", "a">>, <<"a", "c", "b">>,
     <<"b", "c", "b">>, <<"c", "c", "b">>, <<"a", "a", "c">>, <<"b", "a", "c">>,
     <<"c", "a", "c">>, <<"a", "b", "c">>, <<"b", "b", "c">>, <<"c", "b", "c">>,
     <<"a", "c", "c">>, <<"b", "c", "c">>, <<"c", "c", "c">> >>

\* C18: the result holds every tuple of the Cartesian product once and
\* nothing else: the empty tuple alone for no streams, the singletons in
\* source order for one stream, otherwise the tuples in the order in which
\* everyCombination pairs the first stream with the tuples of the rest; three
\* copies of a, b, c give the 27 tuples in the tested order
C18_EveryCombinationMany ==
  Returned("everyCombinationMany") =>
    LET tuples == Untyped(result) IN
      /\ Range(tuples) = ProductOf(input.iterators)
      /\ NoRepeats(tuples)
      /\ input.iterators = <<>> => tuples = << <<>> >>
      /\ Len(input.iterators) = 1 =>
           tuples = [k \in 1..Len(input.iterators[1]) |-> <<input.iterators[1][k]>>]
      /\ tuples = ExpectedMany(input.iterators)
      /\ input.iterators = <<Abc(3), Abc(3), Abc(3)>> => tuples = TestedOrderOfThree

C18_Witness ==
  /\ Returned("everyCombinationMany")
  /\ input.iterators = <<Abc(3), Abc(3), Abc(3)>>
  /\ Len(Untyped(result)) = 27

(***************************************************************************)
(* BufferedIterable shared by several readers (generator/util.ts:65-94)    *)
(*                                                                         *)
(* One BufferedIterable over a finite source, several iterators obtained   *)
(* from it, and a caller that at every turn calls next() on any of them or *)
(* get(i).  JavaScript runs each call to its yield or return before the    *)
(* caller makes the next one.                                              *)
(***************************************************************************)
MaxIterators == 2

\* where the objects live on the heap
Buffered == 1

TheSource == 2

GetFrame == 3

IteratorAt(k) == GetFrame + k

\* the generator object made by BufferedIterable[Symbol.iterator]:
\* `let i = 0`
NewBufferedIterator(buffered) ==
  [kind |-> "bufferedIterator", pc |-> "loop", buffered |-> buffered, i |-> 0]

\* an activation of BufferedIterable.get(index)
NewGet(buffered, index) ==
  [kind |-> "get", pc |-> "loop", getOf |-> buffered, index |-> index]

\* the iterator has no buffered value at its position
NeedsPull_Always(i, buffer) == TRUE

NeedsPull(i, buffer) == i + 1 > Len(buffer)

\* the running frame moves to f and the buffer holds only the value of the
\* source's last result
PushOnto_Replacing(f, buffered) ==
  /\ heap' = [heap EXCEPT ![Top] = f,
                          ![buffered] = [@ EXCEPT !.buffer = <<ret.value>>]]
  /\ stack' = stack
  /\ ret' = NoRet

\* the running frame moves to f and pushes the value of the source's last
\* result onto the shared buffer
PushOnto(f, buffered) ==
  /\ heap' = [heap EXCEPT ![Top] = f,
                          ![buffered] = [@ EXCEPT !.buffer = Append(@, ret.value)]]
  /\ stack' = stack
  /\ ret' = NoRet

\* BufferedIterable[Symbol.iterator]
StepBufferedIterator ==
  /\ stack # <<>>
  /\ heap[Top].kind = "bufferedIterator"
  /\ LET f == heap[Top]
         buffer == heap[f.buffered].buffer
     IN CASE f.pc = "loop" ->
               IF NeedsPull(f.i, buffer)
                 THEN CallNext([f EXCEPT !.pc = "wait"], heap[f.buffered].iterator)
                 ELSE Yield([f EXCEPT !.pc = "resume"], buffer[f.i + 1])
          [] f.pc = "wait" ->
               IF ret.done
                 THEN Return(f)
                 ELSE PushOnto([f EXCEPT !.pc = "yield"], f.buffered)
          [] f.pc = "yield" ->
               Yield([f EXCEPT !.pc = "resume"], buffer[f.i + 1])
          [] f.pc = "resume" ->
               Goto([f EXCEPT !.i = f.i + 1, !.pc = "loop"])
          [] f.pc = "done" -> Return(f)
  /\ UNCHANGED <<input, result, out, finished, validation, thrown>>

\* BufferedIterable.get
StepGet ==
  /\ stack # <<>>
  /\ heap[Top].kind = "get"
  /\ LET f == heap[Top]
         buffer == heap[f.getOf].buffer
     IN CASE f.pc = "loop" ->
               IF f.index >= Len(buffer)
                 THEN CallNext([f EXCEPT !.pc = "wait"], heap[f.getOf].iterator)
                 ELSE Yield([f EXCEPT !.pc = "returned"], buffer[f.index + 1])
          [] f.pc = "wait" ->
               IF ret.done
                 THEN Return(f)
                 ELSE PushOnto([f EXCEPT !.pc = "loop"], f.getOf)
  /\ UNCHANGED <<input, result, out, finished, validation, thrown>>

\* no call is running and the last one was taken note of
Idle == stack = <<>> /\ ~ret.set

\* the caller calls next() on its k-th iterator, finished or not
CallIteratorNext ==
  /\ Idle
  /\ \E k \in 1..input.iterators :
       /\ stack' = <<IteratorAt(k)>>
       /\ result' = Typed("next", k)
  /\ UNCHANGED <<input, heap, ret, out, finished, validation, thrown>>

\* the caller calls get(index)
CallGet ==
  /\ Idle
  /\ \E index \in 0..MaxLen :
       /\ heap' = [heap EXCEPT ![GetFrame] = NewGet(Buffered, index)]
       /\ stack' = <<GetFrame>>
       /\ result' = Typed("get", index)
  /\ UNCHANGED <<input, ret, out, finished, validation, thrown>>

\* the call returned to the caller: a value or the end of iterator k, or
\* the result of get(index)
ReceiveBuffered ==
  /\ stack = <<>>
  /\ ret.set
  /\ ret' = NoRet
  /\ IF result[1] = "next"
       THEN LET k == Untyped(result)
            IN /\ out' = IF ret.done THEN out
                         ELSE [out EXCEPT ![k] = Append(@, Untyped(ret.value))]
               /\ finished' = [finished EXCEPT ![k] = ret.done]
               /\ result' = NoResult
       ELSE /\ result' = Typed("got", [index |-> Untyped(result),
                                       done |-> ret.done,
                                       value |-> IF ret.done THEN 0
                                                 ELSE Untyped(ret.value)])
            /\ UNCHANGED <<out, finished>>
  /\ UNCHANGED <<input, heap, stack, validation, thrown>>

InitBuffered ==
  /\ input \in [len : 0..MaxLen, iterators : 1..MaxIterators]
  /\ heap = <<NewBufferedIterable(TheSource), NewSource(input.len),
              NewGet(Buffered, 0)>>
            \o [k \in 1..input.iterators |-> NewBufferedIterator(Buffered)]
  /\ stack = <<>>
  /\ ret = NoRet
  /\ out = [k \in 1..input.iterators |-> <<>>]
  /\ finished = [k \in 1..input.iterators |-> FALSE]
  /\ validation = <<>>
  /\ thrown = ""
  /\ result = NoResult

NextBuffered ==
  \/ CallIteratorNext
  \/ CallGet
  \/ StepBufferedIterator
  \/ StepGet
  \/ StepSource
  \/ ReceiveBuffered

SpecBuffered == InitBuffered /\ [][NextBuffered]_vars

\* the values of the source, in source order
SourceValues == [n \in 1..input.len |-> n]

IsPrefix(s, t) == Len(s) <= Len(t) /\ s = SubSeq(t, 1, Len(s))

\* C17: whatever the interleaving of the next() calls on the iterators of one
\* BufferedIterable with each other and with get(i) calls, every iterator
\* yields the values of the source in source order, and reports done
\* exactly when it has yielded all of them; the source is pulled once per
\* value, and get(i) answers with the i-th value of the source, or done
\* from the length of the source on
C17_BufferedReplay ==
  /\ \A k \in 1..input.iterators :
       /\ IsPrefix(out[k], SourceValues)
       /\ finished[k] => out[k] = SourceValues
  /\ IsPrefix([n \in 1..Len(heap[Buffered].buffer) |->
                 Untyped(heap[Buffered].buffer[n])], SourceValues)
  /\ result[1] = "got" =>
       LET got == Untyped(result)
       IN /\ got.done <=> got.index >= input.len
          /\ ~got.done => got.value = got.index + 1

\* two iterators, called in turns with a get in between, both replayed a
\* source of three values to its end
C17_Witness ==
  /\ input.len = 3
  /\ input.iterators = 2
  /\ \A k \in 1..2 : finished[k] /\ out[k] = <<1, 2, 3>>
  /\ result[1] = "got"
  /\ Untyped(result).index = 1

(***************************************************************************)
(* Claims about the unary operators                                        *)
(***************************************************************************)
RECURSIVE Power(_, _)
\* x repeated n times
Power(x, n) == IF n = 0 THEN "" ELSE x \o Power(x, n - 1)

\* x^from y, x^(from+1) y, ..: as many as the consumer takes
PowersThen(x, from, y) == [n \in 1..PullCap |-> Power(x, from + n - 1) \o y]

\* the sentences of the productions of Operands and of the labelled
\* sequence, in the order their own languages yield them, and whether the
\* language ends
InOrder ==
  <<[language |-> Just(Operands[1]), optional |-> OptionalOf(Operands[1]),
     sentences |-> <<"a", "b", "c">>, ends |-> TRUE],
    [language |-> Just(Operands[2]), optional |-> OptionalOf(Operands[2]),
     sentences |-> PowersThen("a", 0, ""), ends |-> FALSE],
    [language |-> Just(Operands[3]), optional |-> OptionalOf(Operands[3]),
     sentences |-> <<"ac", "bc", "ad", "bd", "ae", "be">>, ends |-> TRUE],
    [language |-> JustLabelled, optional |-> OptionalOfLabelled,
     sentences |-> <<"aa", "ab">>, ends |-> TRUE]>>

\* what was delivered so far starts the expected list, and the language
\* reports done only if it ends, after the whole list
Follows(expected, ends) ==
  /\ IsPrefix(out, expected)
  /\ finished => ends /\ out = expected

\* C19: X? yields the empty string first and then the sentences of X in the
\* order X yields them; for literals X and Y, X* Y yields X^n Y for
\* n = 0, 1, 2, .. in that order and does not end, X+ Y yields X^n Y for
\* n = 1, 2, .. and does not end, and X? Y yields Y, then XY, then ends
C19_UnaryOperators ==
  /\ \A k \in 1..Len(InOrder) :
       /\ input = InOrder[k].language =>
            Follows(InOrder[k].sentences, InOrder[k].ends)
       /\ input = InOrder[k].optional =>
            Follows(<<"">> \o InOrder[k].sentences, InOrder[k].ends)
  /\ input = FooStarBar => Follows(PowersThen("foo", 0, "bar"), FALSE)
  /\ input = FooPlusBar => Follows(PowersThen("foo", 1, "bar"), FALSE)
  /\ input = FooOptionalBar => Follows(<<"bar", "foobar">>, TRUE)

\* ("a" | "b") ("c" | "d" | "e") under "?" was taken to its end
C19_Witness ==
  /\ input = OptionalOf(Operands[3])
  /\ finished
  /\ out = <<"", "ac", "bc", "ad", "bd", "ae", "be">>

\* the tests' first five of "foo"* "bar" and "foo"+ "bar", and all of
\* "foo"? "bar"
UnaryTestsSeen ==
  \/ /\ input = FooStarBar
     /\ Len(out) >= 5
     /\ SubSeq(out, 1, 5) = <<"bar", "foobar", "foofoobar", "foofoofoobar",
                              "foofoofoofoobar">>
  \/ /\ input = FooPlusBar
     /\ Len(out) >= 5
     /\ SubSeq(out, 1, 5) = <<"foobar", "foofoobar", "foofoofoobar",
                              "foofoofoofoobar", "foofoofoofoofoobar">>
  \/ input = FooOptionalBar /\ finished /\ out = <<"bar", "foobar">>

(***************************************************************************)
(* Claims about the right-recursive rule                                   *)
(***************************************************************************)
\* C20: for foo = "a" | "b" foo; the sentence at output index n, from 0, is
\* n times "b" and then "a", for every n the consumer takes; the first five
\* are a, ba, bba, bbba, bbbba; the language never reports done
C20_RightRecursiveOrder ==
  input = BStarA =>
    /\ \A n \in 0..(Len(out) - 1) : out[n + 1] = Power("b", n) \o "a"
    /\ Len(out) >= 5 => SubSeq(out, 1, 5) = <<"a", "ba", "bba", "bbba", "bbbba">>
    /\ ~finished
    /\ thrown = ""

\* the consumer took as many sentences of b*a as it takes at most
C20_Witness ==
  /\ input = BStarA
  /\ Len(out) = PullCap
  /\ out[5] = "bbbba"

(***************************************************************************)
(* Claims about the language (a+b)*                                        *)
(***************************************************************************)
\* the twenty sentences of the test 'language (a+b)*'
TestedBalanced ==
  <<"", "ab", "aab", "abab", "aabab",
    "aaab", "aaabab", "abaab", "aabaab", "aaabaab",
    "aaaab", "aaaabab", "aaaabaab", "ababab", "aababab",
    "aaababab", "aaaababab", "aaaaab", "aaaaabab", "aaaaabaab">>

\* the sentence at output index n, from 0, once the consumer has taken it
AtIndex(n, sentence) == Len(out) > n => out[n + 1] = sentence

FirstFourBalanced ==
  /\ AtIndex(0, "")
  /\ AtIndex(1, "ab")
  /\ AtIndex(2, "aab")
  /\ AtIndex(3, "abab")

\* C21 as stated: the first four sentences are "", ab, aab, abab and the
\* sentence at index 13, counting from 0, is aaaabaab
C21_Original ==
  input = ABalanced => FirstFourBalanced /\ AtIndex(13, "aaaabaab")

\* C21: for start = e | "a" aStar "b" start; aStar = e | "a" aStar; the
\* first four sentences are "", ab, aab, abab; aaaabaab is the thirteenth
\* sentence, at index 12 counting from 0, and the sentence at index 13 is
\* ababab; the sentences are those of the test, in its order, and the
\* language does not end
C21_BalancedOrder ==
  input = ABalanced =>
    /\ FirstFourBalanced
    /\ AtIndex(12, "aaaabaab")
    /\ AtIndex(13, "ababab")
    /\ \A n \in 0..(Len(TestedBalanced) - 1) : AtIndex(n, TestedBalanced[n + 1])
    /\ ~finished

\* the consumer took the sentences at indices 12 and 13
C21_Witness ==
  /\ input = ABalanced
  /\ Len(out) >= 14
  /\ out[13] = "aaaabaab"
  /\ out[14] = "ababab"

(***************************************************************************)
(* Claims about two iterations of one Language                             *)
(***************************************************************************)
\* what one iteration alone delivers (C20, C21, C13, C19), and whether it
\* ends
Alone ==
  CASE input = BStarA -> [sentences |-> PowersThen("b", 0, "a"), ends |-> FALSE]
    [] input = ABalanced -> [sentences |-> TestedBalanced, ends |-> FALSE]
    [] input = LabelledIdentifiers ->
         [sentences |-> FirstTenLabelled, ends |-> FALSE]
    [] input = FooOptionalBar ->
         [sentences |-> <<"bar", "foobar">>, ends |-> TRUE]

\* C22: of two iterations of one Language, whatever the order of their
\* pulls, each delivers the sentences one iteration alone delivers, in the
\* same order, and reports done only where that one does; so at every
\* moment one of the two outputs is the beginning of the other
C22_Isolation ==
  /\ \A k \in 1..2 :
       /\ IsPrefix(out[k], Alone.sentences)
       /\ finished[k] => Alone.ends /\ out[k] = Alone.sentences
  /\ IsPrefix(out[1], out[2]) \/ IsPrefix(out[2], out[1])

\* the second iteration is three sentences into the labelled language, the
\* first one sentence, and the first is asked again
C22_Witness ==
  /\ input = LabelledIdentifiers
  /\ out[2] = <<"", "a", "aa">>
  /\ out[1] = <<"">>
  /\ result = Typed("pull", 1)
  /\ Len(stack) > 2

(***************************************************************************)
(* Claims about Choice.  The stream of a production of ChoiceLanguages is  *)
(* computed from the AST by rounds, as the claim describes it; an unending *)
(* stream is cut beyond what the consumer takes.                           *)
(***************************************************************************)
RECURSIVE FlattenRounds(_)
FlattenRounds(rounds) ==
  IF rounds = <<>> THEN <<>> ELSE Head(rounds) \o FlattenRounds(Tail(rounds))

\* the alternatives with more than r values, in insertion order
Live(streams, r) ==
  SelectSeq([c \in 1..Len(streams) |-> c], LAMBDA c : Len(streams[c]) > r)

Longest(streams) ==
  IF streams = <<>> THEN 0
  ELSE CHOOSE n \in {Len(streams[c]) : c \in 1..Len(streams)} :
         \A c \in 1..Len(streams) : Len(streams[c]) <= n

\* for round r = 0, 1, ..: the r-th value of every alternative with more
\* than r values, in insertion order
InRounds(streams) ==
  FlattenRounds([round \in 1..Longest(streams) |->
                   [c \in 1..Len(Live(streams, round - 1)) |->
                      streams[Live(streams, round - 1)[c]][round]]])

RECURSIVE StreamOf(_)
StreamOf(production) ==
  CASE production.kind = "literal" -> <<production.value>>
    [] production.kind = "unaryOperator" ->
         [n \in 1..(PullCap + 1) |-> Power(production.production.value, n - 1)]
    [] production.kind = "choice" ->
         IF Len(production.choices) = 1
           THEN StreamOf(production.choices[1])
           ELSE InRounds([c \in 1..Len(production.choices) |->
                            StreamOf(production.choices[c])])

RECURSIVE IsUnending(_)
IsUnending(production) ==
  CASE production.kind = "literal" -> FALSE
    [] production.kind = "unaryOperator" -> TRUE
    [] production.kind = "choice" ->
         \E c \in 1..Len(production.choices) : IsUnending(production.choices[c])

Body == input.rules[1].production

\* C23: a choice delivers its alternatives' values by rounds, in round r the
\* r-th value of every alternative that has more than r values, in insertion
\* order; it reports done only when every alternative has, after all their
\* values; a generator that reported done is never asked again; one
\* alternative alone gives that alternative's stream, none gives nothing
C23_ChoiceRoundRobin ==
  /\ IsPrefix(out, StreamOf(Body))
  /\ finished => ~IsUnending(Body) /\ out = StreamOf(Body)
  /\ \A k \in 2..Len(stack) :
       heap[stack[k - 1]].kind = "Choice" => heap[stack[k]].pc # "done"
  /\ Len(Body.choices) = 0 => out = <<>>
  /\ Len(Body.choices) = 1 => IsPrefix(out, StreamOf(Body.choices[1]))

\* streams of two, three and one values, taken by rounds to the end
C23_Witness ==
  /\ input = ChoiceOf(<<Choice(<<Literal("p"), Literal("q")>>),
                        Choice(<<Literal("u"), Literal("v"), Literal("w")>>),
                        Literal("x")>>)
  /\ finished
  /\ out = <<"p", "u", "x", "q", "v", "w">>

(***************************************************************************)
(* Claims about Sequence                                                   *)
(***************************************************************************)
\* the streams of the elements of the sequence
ElementStreams ==
  [c \in 1..Len(Body.productions) |-> StreamOf(Body.productions[c])]

\* one value per element, concatenated, in the order in which
\* everyCombination pairs the first stream with the combinations of the rest
ExpectedOfSequence ==
  LET tuples == ExpectedMany(ElementStreams)
  IN [k \in 1..Len(tuples) |-> ConcatAll(tuples[k])]

HasUnendingElement ==
  \E c \in 1..Len(Body.productions) : IsUnending(Body.productions[c])

\* C24: the empty sequence yields the empty skeleton once and ends; a
\* sequence of one element yields that element's stream; a sequence of more
\* yields prefix ++ suffix for the pairs everyCombination makes of the first
\* element's stream and the stream of the rest, in its order; when all
\* streams end, every combination of one value per element was yielded
\* exactly once
C24_SequenceGeneration ==
  /\ IsPrefix(out, ExpectedOfSequence)
  /\ finished => ~HasUnendingElement /\ out = ExpectedOfSequence
  /\ Body.productions = <<>> => IsPrefix(out, <<"">>)
  /\ ~HasUnendingElement =>
       /\ Len(ExpectedOfSequence)
            = Product([c \in 1..Len(ElementStreams) |-> Len(ElementStreams[c])])
       /\ NoRepeats(ExpectedMany(ElementStreams))

\* three elements of three, two and one values, all six combinations
C24_Witness ==
  /\ input = SequenceOf(<<Choice(<<Literal("u"), Literal("v"), Literal("w")>>),
                          Choice(<<Literal("p"), Literal("q")>>),
                          Literal("x")>>)
  /\ finished
  /\ Len(out) = 6

\* the empty sequence was taken to its end
EmptySequenceSeen ==
  input = SequenceOf(<<>>) /\ finished /\ out = <<"">>

(***************************************************************************)
(* Claims about the labelling alphabet                                     *)
(***************************************************************************)
\* C25 as stated: the strings taken as the alphabet of a labeled rule are
\* distinct: the alphabet never holds the same string twice
C25_Original ==
  \A c \in 1..Len(ExpandCalls) : NoRepeats(heap[ExpandCalls[c]].choices)

\* what is taken is the beginning of the rule's stream as it is, a repeated
\* string included: for identifier! = "a" | "a" | "b" and two placeholders
\* the alphabet is a, a, and the two sentences delivered are both aa
AlphabetAsTaken ==
  input = RepeatedAlternative =>
    /\ IsPrefix(out, <<"aa", "aa">>)
    /\ \A c \in 1..Len(ExpandCalls) :
         IsPrefix(heap[ExpandCalls[c]].choices, <<"a", "a">>)

(***************************************************************************)
(* Claims about the buffer of BufferedIterable                             *)
(***************************************************************************)
\* the values in the buffer of the BufferedIterable of heap h
BufferOf(h) ==
  [n \in 1..Len(h[Buffered].buffer) |-> Untyped(h[Buffered].buffer[n])]

\* the buffer holds the beginning of the source's values, and the source
\* has handed out the buffered values and at most the one on its way into
\* the buffer, all of them in the buffer between calls
Memoized ==
  /\ IsPrefix(BufferOf(heap), SourceValues)
  /\ heap[TheSource].n \in {Len(BufferOf(heap)), Len(BufferOf(heap)) + 1}
  /\ Idle => heap[TheSource].n = Len(BufferOf(heap))

\* get(index) gave the value at index of the source, or done when the
\* source has none there
GetAnswered ==
  result[1] = "got" =>
    LET got == Untyped(result)
    IN IF got.index < input.len
         THEN ~got.done /\ got.value = SourceValues[got.index + 1]
         ELSE got.done

\* C26: through every sequence of get(i) calls and next() calls on the
\* iterators the buffer is the beginning of the source's values in source
\* order, every step leaves what is buffered in place and at most appends,
\* the source hands out each value once, and get(i) returns the i-th value
\* of the source when there is one and done otherwise
C26_Memoization ==
  /\ [](Memoized /\ GetAnswered)
  /\ [][IsPrefix(BufferOf(heap), BufferOf(heap'))]_vars

\* after gets and iterator steps the whole source of three values is in the
\* buffer, an iterator has read part of it, and get(3) reported done
C26_Witness ==
  /\ input.len = 3
  /\ BufferOf(heap) = <<1, 2, 3>>
  /\ out[1] = <<1, 2>>
  /\ result[1] = "got"
  /\ Untyped(result).index = 3
  /\ Untyped(result).done

(***************************************************************************)
(* Claims about everyCombination with an input that yields nothing         *)
(***************************************************************************)
OneIsEmpty == input.lenA = 0 \/ input.lenB = 0

\* everyCombination has answered the consumer's pull
Answered == stack = <<>> /\ ret.set

\* a source has answered done: it was pulled to its end
Exhausted_Source(source) == heap[source].pc = "done"

\* C27: when one of the two inputs yields nothing, no pair is yielded; done
\* is reported only after both inputs have reported done, the other one
\* having been pulled through all its values; and when the other input is
\* unending the first pull never returns, neither with a pair nor with done
C27_EmptyInput ==
  OneIsEmpty =>
    /\ out = <<>>
    /\ Answered => ret.done
    /\ (Answered \/ finished) =>
         /\ IsFinite(input.lenA) /\ IsFinite(input.lenB)
         /\ Exhausted_Source(heap[Root].rawLefts)
         /\ Exhausted_Source(heap[Root].rawRights)
         /\ heap[heap[Root].rawLefts].n = input.lenA
         /\ heap[heap[Root].rawRights].n = input.lenB
    /\ (input.lenA = Unending \/ input.lenB = Unending) =>
         ~Answered /\ ~finished

\* the left input is empty, the right unending: the first pull is still
\* running in the last round the model follows, nothing yielded
C27_Witness ==
  /\ input.lenA = 0
  /\ input.lenB = Unending
  /\ stack # <<>>
  /\ heap[Root].max = MaxCap
  /\ heap[Root].leftsDone

\* with an empty and an unending input the first pull, once made, goes on
\* to every round the model follows
EmptyInputKeepsPulling ==
  (OneIsEmpty /\ (input.lenA = Unending \/ input.lenB = Unending)
     /\ stack # <<>>)
    ~> (stack # <<>> /\ heap[Root].max = MaxCap)

\* the left input is empty, the right has MaxLen values: done was reported
\* after the MaxLen values were pulled
EmptyAndFiniteSeen ==
  /\ input.lenA = 0
  /\ input.lenB = MaxLen
  /\ finished
  /\ heap[heap[Root].rawRights].n = MaxLen

\* the calls of expandLabels that have their assignments
Expanding ==
  {k \in 1..Len(heap) : heap[k].kind = "expandLabels" /\ heap[k].pc = "emit"}

\* the rules of the placeholders of a skeleton
PlaceholdersOf(results) ==
  {results[k].text : k \in {i \in 1..Len(results) : results[i].label}}

InternalErrors ==
  {"Internal error, unknown label."}
    \cup {"Internal error, ran out of " \o input.rules[k].name \o " labels." :
            k \in 1..Len(input.rules)}

\* C30: label expansion never raises 'Internal error, unknown label.' nor
\* 'Internal error, ran out of ... labels.': in every assignment made for a
\* skeleton each placeholder's rule has one labelling, with as many elements
\* as the skeleton has placeholders of that rule, and nothing is thrown
C30_NoInternalError ==
  /\ thrown \notin InternalErrors
  /\ thrown = ""
  /\ \A e \in Expanding :
       \A j \in 1..Len(heap[e].labellings) :
         \A rule \in PlaceholdersOf(heap[e].results) :
           LET pairs == {p \in 1..Len(heap[e].labellings[j]) :
                           heap[e].labellings[j][p].rule = rule}
           IN /\ Cardinality(pairs) = 1
              /\ \A p \in pairs :
                   Len(heap[e].labellings[j][p].labelling)
                     = CountOf(heap[e].results, rule)

\* a skeleton with placeholders of two rules, one of them more often than
\* the rule has strings, has been expanded and delivered
C30_Witness ==
  /\ input \in LabelLanguages
  /\ thrown = ""
  /\ Len(out) >= 1
  /\ \E e \in Expanding :
       /\ Cardinality(PlaceholdersOf(heap[e].results)) = 2
       /\ CountOf(heap[e].results, "x") = 2
       /\ Len(input.rules[2].production.choices) = 1
       /\ heap[e].j > Len(heap[e].labellings)

\* the grammars made by hand, whose first alternative concatenates the
\* empty stream of a choice without alternatives with the unending stream
\* of "a"*
HandBuilt == {EmptyChoiceThenStar, EmptyChoiceThenStarOrB}

\* the first pull is running: nothing was delivered, nothing was thrown
InsideFirstPull ==
  /\ stack # <<>>
  /\ out = <<>>
  /\ ~finished
  /\ thrown = ""

\* an everyCombination that has found its left stream empty and is at round
\* max, its right stream still yielding
RoundOfEmptyLefts(max) ==
  \E o \in 1..Len(heap) :
    /\ heap[o].kind = "everyCombination"
    /\ heap[o].max = max
    /\ heap[o].leftsDone
    /\ ~heap[o].rightsDone
    /\ heap[heap[o].lefts].buffer = <<>>

\* for the grammars made by hand no pull ever delivers: the consumer never
\* receives a sentence, an end of stream or an error
FirstPullNeverReturns ==
  (input \in HandBuilt) => (out = <<>> /\ ~finished /\ thrown = "")

\* and the first pull does not stop either: still inside it, everyCombination
\* reaches the last round the model lets it start, whichever round that is
FirstPullReachesEveryRound ==
  (input \in HandBuilt /\ validation.ok)
    ~> (InsideFirstPull /\ RoundOfEmptyLefts(MaxCap))

====
